---- MODULE Spec2Model ----
(***************************************************************************)
(* ZK-battleship: the board model (core/src/lib.rs), the guest proof       *)
(* program (methods/guest/src/main.rs), the envelope transport             *)
(* (host/src/network.rs) and the networked coordinator (host/src/game.rs). *)
(*                                                                         *)
(* The specifications share the variables below; among them:               *)
(*   Spec      two honest peers, handshake then play_game, over a reliable *)
(*             in-order channel;                                           *)
(*   SpecAdv   the same peers, a short session, with a channel adversary   *)
(*             that captures, re-delivers, reflects and alters lines, and  *)
(*             a defender that may answer with an earlier proof;           *)
(*   SpecBoard one GameState driven by place_ship and apply_shot calls.    *)
(***************************************************************************)
EXTENDS Integers, Sequences, FiniteSets, TLC

(***************************************************************************)
(* Program constants                                                       *)
(***************************************************************************)
BOARD_SIZE == 10

NUM_SHIPS == 5

PEPPER_LEN == 16

U8 == 256

ParseFallback == 999

ShipTypes == <<"Carrier", "Battleship", "Cruiser", "Submarine", "Destroyer">>

ShipTypeSet == {ShipTypes[i] : i \in 1..NUM_SHIPS}

SHIP_SIZES == <<5, 4, 3, 3, 2>>

Directions == {"Horizontal", "Vertical"}

\* Option<T>: None is the empty tuple, Some(v) the one-element tuple.
None == <<>>

Some(v) == <<v>>

(***************************************************************************)
(* core/src/lib.rs: Position, ShipType, Ship                               *)
(***************************************************************************)
Pos(x, y) == [x |-> x, y |-> y]

Position_step(p, dir, dist) ==
    IF dir = "Vertical" THEN [x |-> p.x, y |-> p.y + dist]
                        ELSE [x |-> p.x + dist, y |-> p.y]

in_bounds(p) == p.x < BOARD_SIZE /\ p.y < BOARD_SIZE

ShipType_index(t) == (CHOOSE i \in 1..NUM_SHIPS : ShipTypes[i] = t) - 1

ShipType_size(t) ==
    CASE t = "Carrier" -> 5
      [] t = "Battleship" -> 4
      [] t = "Cruiser" -> 3
      [] t = "Submarine" -> 3
      [] t = "Destroyer" -> 2

Ship_new(t, p, dir) == [ship_type |-> t, position |-> p, direction |-> dir, hits |-> 0]

\* u8 bit operations on the hits mask.
Pow2(n) == IF n = 0 THEN 1 ELSE IF n = 1 THEN 2 ELSE IF n = 2 THEN 4 ELSE IF n = 3 THEN 8
           ELSE IF n = 4 THEN 16 ELSE IF n = 5 THEN 32 ELSE IF n = 6 THEN 64 ELSE 128

BitIsSet(h, i) == (h \div Pow2(i)) % 2 = 1

BitOr(h, i) == IF BitIsSet(h, i) THEN h ELSE (h + Pow2(i)) % U8

BitAnd(h, m) ==
    LET bit(i) == IF BitIsSet(h, i) /\ BitIsSet(m, i) THEN Pow2(i) ELSE 0
    IN  bit(0) + bit(1) + bit(2) + bit(3) + bit(4) + bit(5) + bit(6) + bit(7)

\* A mutant of is_sunk: one hit segment is enough.
is_sunk_any_hit(ship) == ship.hits # 0

\* A mutant of is_sunk: the last segment's bit alone is tested.
is_sunk_last_segment(ship) == BitIsSet(ship.hits, ShipType_size(ship.ship_type) - 1)

is_sunk(ship) ==
    LET sz == ShipType_size(ship.ship_type)
        mask == IF sz >= 8 THEN U8 - 1 ELSE Pow2(sz) - 1
    IN  BitAnd(ship.hits, mask) = mask

\* A mutant of check_hit: a hit sets the bit of the first segment too.
check_hit_sets_first_bit(ship, shot) ==
    LET horiz  == ship.direction = "Horizontal"
        before == IF horiz THEN shot.y # ship.position.y \/ shot.x < ship.position.x
                           ELSE shot.x # ship.position.x \/ shot.y < ship.position.y
        offset == IF horiz THEN shot.x - ship.position.x ELSE shot.y - ship.position.y
    IN  IF before THEN [hit |-> FALSE, ship |-> ship]
        ELSE IF offset < ShipType_size(ship.ship_type)
             THEN [hit |-> TRUE, ship |-> [ship EXCEPT !.hits = BitOr(BitOr(@, offset), 0)]]
             ELSE [hit |-> FALSE, ship |-> ship]

\* check_hit returns the bool and the ship with its hit bit set.
check_hit(ship, shot) ==
    LET horiz  == ship.direction = "Horizontal"
        before == IF horiz THEN shot.y # ship.position.y \/ shot.x < ship.position.x
                           ELSE shot.x # ship.position.x \/ shot.y < ship.position.y
        offset == IF horiz THEN shot.x - ship.position.x ELSE shot.y - ship.position.y
    IN  IF before THEN [hit |-> FALSE, ship |-> ship]
        ELSE IF offset < ShipType_size(ship.ship_type)
             THEN [hit |-> TRUE, ship |-> [ship EXCEPT !.hits = BitOr(@, offset)]]
             ELSE [hit |-> FALSE, ship |-> ship]

get_coordinates(ship) ==
    [o \in 1..ShipType_size(ship.ship_type) |->
        Position_step(ship.position, ship.direction, o - 1)]

CoordSet(ship) == {get_coordinates(ship)[o] : o \in 1..ShipType_size(ship.ship_type)}

(***************************************************************************)
(* core/src/lib.rs: HitType, GameState                                     *)
(***************************************************************************)
Miss == [tag |-> "Miss"]

Hit == [tag |-> "Hit"]

Sunk(t) == [tag |-> "Sunk", ship_type |-> t]

Cells == 0..(BOARD_SIZE - 1)

EmptyGrid == [y \in Cells |-> [x \in Cells |-> "Empty"]]

ZeroPepper == [i \in 1..PEPPER_LEN |-> 0]

GameState_new(pepper) == [ships |-> <<>>, pepper |-> pepper, grid |-> EmptyGrid]

\* A mutant of can_place_ship: the cells of the ships already placed are not looked at.
can_place_ship_no_overlap_test(s, t, start, dir) ==
    IF ~in_bounds(start) THEN FALSE
    ELSE IF ~in_bounds(Position_step(start, dir, ShipType_size(t) - 1)) THEN FALSE
    ELSE ~\E i \in DOMAIN s.ships : s.ships[i].ship_type = t

\* A mutant of can_place_ship: the end cell is not tested.
can_place_ship_no_end_test(s, t, start, dir) ==
    IF ~in_bounds(start) THEN FALSE
    ELSE IF \E i \in DOMAIN s.ships : s.ships[i].ship_type = t THEN FALSE
    ELSE \A i \in DOMAIN s.ships :
            CoordSet(s.ships[i]) \cap CoordSet(Ship_new(t, start, dir)) = {}

can_place_ship(s, t, start, dir) ==
    IF ~in_bounds(start) THEN FALSE
    ELSE IF ~in_bounds(Position_step(start, dir, ShipType_size(t) - 1)) THEN FALSE
    ELSE IF \E i \in DOMAIN s.ships : s.ships[i].ship_type = t THEN FALSE
    ELSE \A i \in DOMAIN s.ships :
            CoordSet(s.ships[i]) \cap CoordSet(Ship_new(t, start, dir)) = {}

\* A mutant of place_ship: the new ship goes to the front of ships.
place_ship_at_front(s, t, p, dir) ==
    IF can_place_ship(s, t, p, dir)
    THEN [ok |-> TRUE, state |-> [s EXCEPT !.ships = <<Ship_new(t, p, dir)>> \o @]]
    ELSE [ok |-> FALSE, state |-> s]

\* place_ship returns the bool and the state after the call.
place_ship(s, t, p, dir) ==
    IF can_place_ship(s, t, p, dir)
    THEN [ok |-> TRUE, state |-> [s EXCEPT !.ships = Append(@, Ship_new(t, p, dir))]]
    ELSE [ok |-> FALSE, state |-> s]

\* place_ships: every placement is attempted in order and the successful ones
\* are kept; `acc` is all_ok and the state so far, `one` the k-th place_ship.
RECURSIVE place_ships_from(_, _, _)
place_ships_step(acc, list, k, one) ==
    place_ships_from([ok |-> acc.ok /\ one.ok, state |-> one.state], list, k + 1)

\* A mutant of the loop of place_ships: it stops at the first failure.
place_ships_from_stops(acc, list, k) ==
    IF k > Len(list) \/ ~acc.ok THEN acc
    ELSE place_ships_step(acc, list, k,
                          place_ship(acc.state, list[k][1], list[k][2], list[k][3]))

place_ships_from(acc, list, k) ==
    IF k > Len(list) THEN acc
    ELSE place_ships_step(acc, list, k,
                          place_ship(acc.state, list[k][1], list[k][2], list[k][3]))

place_ships(s, list) == place_ships_from([ok |-> TRUE, state |-> s], list, 1)

\* place_ships_randomly.  `positions` is the shuffled list of the 100 cells.
\* For one ship type: the first position and direction, Horizontal before
\* Vertical, that place_ship accepts; `k` is the position the search has reached.
RECURSIVE first_fit(_, _, _, _)
first_fit(s, t, positions, k) ==
    IF k > Len(positions) THEN [ok |-> FALSE, state |-> s]
    ELSE IF can_place_ship(s, t, positions[k], "Horizontal")
    THEN place_ship(s, t, positions[k], "Horizontal")
    ELSE IF can_place_ship(s, t, positions[k], "Vertical")
    THEN place_ship(s, t, positions[k], "Vertical")
    ELSE first_fit(s, t, positions, k + 1)

\* The loop over the five ship types; a type that fits nowhere clears ships.
RECURSIVE place_random_from(_, _, _)
place_random_step(positions, i, one) ==
    IF one.ok THEN place_random_from(one.state, positions, i + 1)
    ELSE [ok |-> FALSE, state |-> [one.state EXCEPT !.ships = <<>>]]

place_random_from(s, positions, i) ==
    IF i > NUM_SHIPS THEN [ok |-> TRUE, state |-> s]
    ELSE place_random_step(positions, i, first_fit(s, ShipTypes[i], positions, 1))

\* A mutant of place_ships_randomly: the ships placed before are kept, the
\* new ones follow them.
place_ships_randomly_keeps(s, positions) ==
    [ok |-> place_random_from([s EXCEPT !.ships = <<>>], positions, 1).ok,
     state |-> [s EXCEPT !.ships =
                   @ \o place_random_from([s EXCEPT !.ships = <<>>], positions, 1).state.ships]]

\* ships is cleared first; the grid and the pepper are left as they are.
place_ships_randomly(s, positions) ==
    place_random_from([s EXCEPT !.ships = <<>>], positions, 1)

\* A mutant of check: only the presence of the five types is tested.
check_types_only(s) ==
    \A t \in ShipTypeSet : \E i \in DOMAIN s.ships : s.ships[i].ship_type = t

check(s) ==
    /\ \A i \in DOMAIN s.ships :
          /\ \A c \in CoordSet(s.ships[i]) : in_bounds(c)
          /\ \A j \in DOMAIN s.ships : j > i =>
                /\ s.ships[i].ship_type # s.ships[j].ship_type
                /\ CoordSet(s.ships[i]) \cap CoordSet(s.ships[j]) = {}
    /\ \A t \in ShipTypeSet : \E i \in DOMAIN s.ships : s.ships[i].ship_type = t

\* The body of apply_shot's loop for ship i, the first ship whose check_hit
\* accepts the shot: `sh` is that ship with its hit bit set.
apply_shot_hit(s, shot, i, sh) ==
    [res |-> Some(IF is_sunk(sh) THEN Sunk(sh.ship_type) ELSE Hit),
     state |-> [s EXCEPT !.ships[i] = sh, !.grid[shot.y][shot.x] = "Hit"]]

\* The loop `for ship in &mut self.ships`: it stops at the first ship check_hit
\* accepts (check_hit leaves the ships it rejects untouched), and falls through
\* to the Miss when there is none.  `from` is the index the scan has reached.
RECURSIVE apply_shot_scan(_, _, _)
apply_shot_scan(s, shot, from) ==
    IF from > Len(s.ships)
    THEN [res |-> Some(Miss), state |-> [s EXCEPT !.grid[shot.y][shot.x] = "Miss"]]
    ELSE IF check_hit(s.ships[from], shot).hit
    THEN apply_shot_hit(s, shot, from, check_hit(s.ships[from], shot).ship)
    ELSE apply_shot_scan(s, shot, from + 1)

\* A mutant of apply_shot: the already-shot test is dropped.
apply_shot_no_reshot_test(s, shot) ==
    IF ~in_bounds(shot) THEN [res |-> None, state |-> s]
    ELSE apply_shot_scan(s, shot, 1)

\* apply_shot returns the Option<HitType> and the state after the call.
apply_shot(s, shot) ==
    IF ~in_bounds(shot) THEN [res |-> None, state |-> s]
    ELSE IF s.grid[shot.y][shot.x] # "Empty" THEN [res |-> None, state |-> s]
    ELSE apply_shot_scan(s, shot, 1)

\* bincode of a GameState, one entry per fixed-width little-endian field: the
\* Vec length, each ship (variant index, x, y, variant index, hits), the
\* pepper bytes, the grid row-major as variant indices.
CellIndex(c) == IF c = "Empty" THEN 0 ELSE IF c = "Miss" THEN 1 ELSE 2

DirIndex(d) == IF d = "Horizontal" THEN 0 ELSE 1

RECURSIVE SerializeShips(_)
SerializeShips(ships) ==
    IF ships = <<>> THEN <<>>
    ELSE <<ShipType_index(ships[1].ship_type), ships[1].position.x, ships[1].position.y,
           DirIndex(ships[1].direction), ships[1].hits>> \o SerializeShips(Tail(ships))

\* A mutant of Serialize: the pepper is left out of the bytes.
Serialize_no_pepper(s) ==
    <<Len(s.ships)>> \o SerializeShips(s.ships)
      \o [k \in 1..(BOARD_SIZE * BOARD_SIZE) |->
            CellIndex(s.grid[(k - 1) \div BOARD_SIZE][(k - 1) % BOARD_SIZE])]

Serialize(s) ==
    <<Len(s.ships)>> \o SerializeShips(s.ships) \o s.pepper
      \o [k \in 1..(BOARD_SIZE * BOARD_SIZE) |->
            CellIndex(s.grid[(k - 1) \div BOARD_SIZE][(k - 1) % BOARD_SIZE])]

\* SHA-256 as an ideal hash: a digest names the bytes it was computed from.
Sha256(bytes) == [sha256 |-> bytes]

commit(s) == Sha256(Serialize(s))

(***************************************************************************)
(* methods/guest/src/main.rs and host/src/proofs.rs                        *)
(***************************************************************************)
METHOD_ID == "METHOD_ID"

Ok(v) == [ok |-> TRUE, val |-> v]

Err(why) == [ok |-> FALSE, err |-> why]

RoundCommit(old, new, shot, hit) ==
    [old_state |-> old, new_state |-> new, shot |-> shot, hit |-> hit]

\* The journal is a stream of words.  env::commit of a RoundCommit writes its
\* fields in order: the two digests (a digest is kept as one entry), the
\* shot's x and y, the HitType's variant index and, for Sunk, the ShipType's.
HitWords(hit) ==
    CASE hit.tag = "Miss" -> <<0>>
      [] hit.tag = "Hit" -> <<1>>
      [] hit.tag = "Sunk" -> <<2, ShipType_index(hit.ship_type)>>

env_commit(rc) ==
    <<rc.old_state, rc.new_state, rc.shot.x, rc.shot.y>> \o HitWords(rc.hit)

\* The RoundCommits the guest's loop writes, from `state` on, one per shot.
\* `r` is apply_shot's result on `state`; a None is committed as a Miss.
RECURSIVE guest_rounds(_, _)
\* A mutant of guest_round: old_state is taken after the shot.
guest_round_stale_old(state, shots, r) ==
    env_commit(RoundCommit(commit(r.state), commit(r.state), shots[1],
                           IF r.res = None THEN Miss ELSE r.res[1]))
      \o guest_rounds(r.state, Tail(shots))

\* A mutant of guest_round: a rejected shot is committed as a Hit.
guest_round_none_as_hit(state, shots, r) ==
    env_commit(RoundCommit(commit(state), commit(r.state), shots[1],
                           IF r.res = None THEN Hit ELSE r.res[1]))
      \o guest_rounds(r.state, Tail(shots))

guest_round(state, shots, r) ==
    env_commit(RoundCommit(commit(state), commit(r.state), shots[1],
                           IF r.res = None THEN Miss ELSE r.res[1]))
      \o guest_rounds(r.state, Tail(shots))

guest_rounds(state, shots) ==
    IF shots = <<>> THEN <<>>
    ELSE guest_round(state, shots, apply_shot(state, shots[1]))

\* A mutant of guest_main: the initial state is not validated.
guest_main_unchecked(input) ==
    Ok(<<commit(input.initial)>> \o guest_rounds(input.initial, input.shots))

\* The guest: a panic (no journal) when check() fails, else the journal:
\* the initial digest, then the RoundCommits.
guest_main(input) ==
    IF ~check(input.initial) THEN Err("initial GameState failed validation")
    ELSE Ok(<<commit(input.initial)>> \o guest_rounds(input.initial, input.shots))

GuestInput(initial, shots) == [initial |-> initial, shots |-> shots]

\* default_prover().prove on a guest run: a receipt over the journal, or the
\* guest's panic as "prover failed".  receipt.verify(METHOD_ID) then holds.
prove(run) ==
    IF ~run.ok THEN Err("prover failed")
    ELSE Ok([journal |-> run.val, seal |-> METHOD_ID])

\* prover_up: whether default_prover().prove can run at all.
produce_and_verify_proof(input, prover_up) ==
    IF ~prover_up THEN Err("prover failed") ELSE prove(guest_main(input))

\* The journal decoder: one Digest, then RoundCommits to the end.
\* One RoundCommit is read off the front of the words; the stream running out
\* inside it ends the loop, a variant index that names nothing is an error.
RECURSIVE read_round_commits(_)
read_more(rc, rest) == IF ~rest.ok THEN rest ELSE Ok(<<rc>> \o rest.val)

read_round_commit(w, hit, used) ==
    read_more(RoundCommit(w[1], w[2], Pos(w[3], w[4]), hit),
              read_round_commits(SubSeq(w, used + 1, Len(w))))

read_round_commits(w) ==
    IF Len(w) < 5 THEN Ok(<<>>)
    ELSE IF w[5] = 0 THEN read_round_commit(w, Miss, 5)
    ELSE IF w[5] = 1 THEN read_round_commit(w, Hit, 5)
    ELSE IF w[5] # 2 THEN Err("failed to deserialize RoundCommit")
    ELSE IF Len(w) < 6 THEN Ok(<<>>)
    ELSE IF w[6] \notin 0..(NUM_SHIPS - 1) THEN Err("failed to deserialize RoundCommit")
    ELSE read_round_commit(w, Sunk(ShipTypes[w[6] + 1]), 6)

extract_round_commits(receipt) ==
    IF receipt.journal = <<>> THEN Err("failed to read initial commit from journal")
    ELSE read_round_commits(Tail(receipt.journal))

proofdata_from_receipt(receipt, rc) ==
    [receipt_bytes |-> [bincode |-> receipt], commit |-> rc]

receipt_from_proofdata(pd) ==
    IF "bincode" \in DOMAIN pd.receipt_bytes THEN Ok(pd.receipt_bytes.bincode)
    ELSE Err("deserializing Receipt from bytes")

\* verify_remote_round_proof as its callers use it, with no match or seq to
\* bind to: the seal, then the journal's commits, the first one's old_state
\* and some commit's shot.
verify_remote_commits(commits, server_state, shot) ==
    IF ~commits.ok THEN commits
    ELSE IF commits.val = <<>> THEN Err("no round commits found in receipt")
    ELSE IF commits.val[1].old_state # commit(server_state)
    THEN Err("mismatched base state in provided proof")
    ELSE IF ~(\E i \in DOMAIN commits.val : commits.val[i].shot = shot)
    THEN Err("receipt does not contain a commit for the requested shot")
    ELSE commits

verify_remote_round_proof(receipt, server_state, shot) ==
    IF receipt.seal # METHOD_ID THEN Err("receipt verification failed")
    ELSE verify_remote_commits(extract_round_commits(receipt), server_state, shot)

Last(seq) == seq[Len(seq)]

(***************************************************************************)
(* host/src/network_protocol.rs: GameMessage, Envelope                     *)
(***************************************************************************)
BoardReady(c, name) ==
    [tag |-> "BoardReady", commitment |-> c, player_name |-> name, proof |-> None]

TakeShot(pos) == [tag |-> "TakeShot", position |-> pos]

ShotResult(pos, hit, pd) ==
    [tag |-> "ShotResult", position |-> pos, hit_type |-> hit, proof |-> pd]

GameOver(winner) == [tag |-> "GameOver", winner |-> winner]

ErrorMsg(m) == [tag |-> "Error", message |-> m]

Envelope_new(match_id, seq, payload) ==
    [match_id |-> match_id, seq |-> seq, payload |-> payload, auth_token |-> None]

\* serde_json of an envelope and its parse; a line that is no envelope fails to parse.
to_json(env) == [json |-> env]

from_json(line) ==
    IF "json" \in DOMAIN line THEN Ok(line.json) ELSE Err("failed to parse incoming envelope")

\* HMAC-SHA256 as an ideal MAC: a tag names its key and the bytes it covers.
HmacSha256(key, bytes) == [hmac_key |-> key, over |-> bytes]

Base64(b) == [b64 |-> b]

AuthToken(secret, env) ==
    Base64(HmacSha256(secret, to_json([env EXCEPT !.auth_token = None])))

(***************************************************************************)
(* host/src/network.rs: NetworkConnection                                  *)
(***************************************************************************)
NetworkConnection_new(secret) ==
    [match_id |-> None, next_seq |-> 0, expected_seq |-> 0, match_secret |-> Some(secret)]

\* A mutant of send_enveloped: an Error reply does not consume a seq number.
send_enveloped_error_keeps_seq(conn, payload, fresh) ==
    LET id  == IF conn.match_id # None THEN conn.match_id[1] ELSE fresh
        env == Envelope_new(id, conn.next_seq, payload)
        out == IF conn.match_secret # None
               THEN [env EXCEPT !.auth_token = Some(AuthToken(conn.match_secret[1], env))]
               ELSE env
    IN  [conn |-> [conn EXCEPT !.next_seq = IF payload.tag = "Error" THEN @ ELSE @ + 1],
         env |-> out, line |-> to_json(out)]

\* send_enveloped returns the connection after the call and the line written.
\* `fresh` is the Uuid::new_v4() drawn when no match_id is set (it is not
\* stored).  next_seq is a u64 and wraps at 2^64, beyond any bounded run.
send_enveloped(conn, payload, fresh) ==
    LET id  == IF conn.match_id # None THEN conn.match_id[1] ELSE fresh
        env == Envelope_new(id, conn.next_seq, payload)
        out == IF conn.match_secret # None
               THEN [env EXCEPT !.auth_token = Some(AuthToken(conn.match_secret[1], env))]
               ELSE env
    IN  [conn |-> [conn EXCEPT !.next_seq = @ + 1], env |-> out, line |-> to_json(out)]

\* The first match_id seen is adopted.
AdoptMatchId(conn, env) ==
    IF conn.match_id = None THEN [conn EXCEPT !.match_id = Some(env.match_id)] ELSE conn

\* A mutant of receive_enveloped: the auth_token is only required to be present.
receive_enveloped_token_unchecked(conn, line) ==
    LET p == from_json(line)
        env == p.val
        c1 == AdoptMatchId(conn, env)
    IN  IF ~p.ok THEN [status |-> "parse", conn |-> conn, env |-> None]
        ELSE IF conn.match_secret # None /\ env.auth_token = None
        THEN [status |-> "auth", conn |-> conn, env |-> None]
        ELSE IF env.match_id # c1.match_id[1]
        THEN [status |-> "match_id", conn |-> c1, env |-> None]
        ELSE IF env.seq # c1.expected_seq
        THEN [status |-> "seq", conn |-> c1, env |-> None]
        ELSE [status |-> "ok", conn |-> [c1 EXCEPT !.expected_seq = @ + 1],
              env |-> Some(env)]

\* A mutant of receive_enveloped: the sequence number is not compared.
receive_enveloped_seq_unchecked(conn, line) ==
    LET p == from_json(line)
        env == p.val
        c1 == AdoptMatchId(conn, env)
    IN  IF ~p.ok THEN [status |-> "parse", conn |-> conn, env |-> None]
        ELSE IF conn.match_secret # None
                /\ (env.auth_token = None
                    \/ env.auth_token[1] # AuthToken(conn.match_secret[1], env))
        THEN [status |-> "auth", conn |-> conn, env |-> None]
        ELSE IF env.match_id # c1.match_id[1]
        THEN [status |-> "match_id", conn |-> c1, env |-> None]
        ELSE [status |-> "ok", conn |-> [c1 EXCEPT !.expected_seq = @ + 1],
              env |-> Some(env)]

\* receive_enveloped on one line read from the stream: the status ("ok" or the
\* check that failed), the connection after the call and the envelope returned.
receive_enveloped(conn, line) ==
    LET p == from_json(line)
        env == p.val
        c1 == AdoptMatchId(conn, env)
    IN  IF ~p.ok THEN [status |-> "parse", conn |-> conn, env |-> None]
        ELSE IF conn.match_secret # None
                /\ (env.auth_token = None
                    \/ env.auth_token[1] # AuthToken(conn.match_secret[1], env))
        THEN [status |-> "auth", conn |-> conn, env |-> None]
        ELSE IF env.match_id # c1.match_id[1]
        THEN [status |-> "match_id", conn |-> c1, env |-> None]
        ELSE IF env.seq # c1.expected_seq
        THEN [status |-> "seq", conn |-> c1, env |-> None]
        ELSE [status |-> "ok", conn |-> [c1 EXCEPT !.expected_seq = @ + 1],
              env |-> Some(env)]

(***************************************************************************)
(* Bounds of the model and the inputs it draws                             *)
(***************************************************************************)
\* Off-list shots, unusable input lines and prover outages happen only while
\* the acting peer has sent fewer than MaxEarly envelopes.
MaxEarly == 4

\* SpecAdv: the honest peers send at most MaxAdvSends envelopes in all and
\* the adversary injects at most MaxInject lines.
MaxAdvSends == 6

MaxInject == 2

\* SpecBoard: at most MaxCalls calls are made on the GameState under test.
MaxCalls == 3

\* SpecMaster: at most MaxInputs lines are typed at the game master's prompt.
MaxInputs == 4

Peers == {"host", "client"}

Other(p) == IF p = "host" THEN "client" ELSE "host"

PlayerName(p) == IF p = "host" THEN "Alice" ELSE "Bob"

MatchIds == {"uuid-1", "uuid-2"}

FreshUuid == "uuid-fresh"

MatchSecret == "dh-secret"

\* The fleets of run_game_master_demo: rows for the host, columns for the client.
RowsFleet ==
    << <<"Carrier", Pos(0, 0), "Horizontal">>, <<"Battleship", Pos(0, 2), "Horizontal">>,
       <<"Cruiser", Pos(0, 4), "Horizontal">>, <<"Submarine", Pos(0, 6), "Horizontal">>,
       <<"Destroyer", Pos(0, 8), "Horizontal">> >>

ColsFleet ==
    << <<"Carrier", Pos(0, 0), "Vertical">>, <<"Battleship", Pos(2, 0), "Vertical">>,
       <<"Cruiser", Pos(4, 0), "Vertical">>, <<"Submarine", Pos(6, 0), "Vertical">>,
       <<"Destroyer", Pos(8, 0), "Vertical">> >>

RowsBoard == place_ships(GameState_new(ZeroPepper), RowsFleet).state

ColsBoard == place_ships(GameState_new(ZeroPepper), ColsFleet).state

InitialBoard(p) == IF p = "host" THEN RowsBoard ELSE ColsBoard

\* The cells a player works through, in row-major order: those of both fleets.
TargetCells ==
    UNION {CoordSet(RowsBoard.ships[i]) : i \in DOMAIN RowsBoard.ships}
      \cup UNION {CoordSet(ColsBoard.ships[i]) : i \in DOMAIN ColsBoard.ships}

Rank(c) == c.y * BOARD_SIZE + c.x

NextTarget(view) ==
    LET cand == {c \in TargetCells : view.grid[c.y][c.x] = "Empty"}
    IN  IF cand = {} THEN {}
        ELSE {CHOOSE c \in cand : \A d \in cand : Rank(c) <= Rank(d)}

\* Off-list inputs: the first cell again, open water, a column of 10, and the
\* 999 that unwrap_or gives an unparsable number.
ExtraShots == {Pos(0, 0), Pos(9, 9), Pos(BOARD_SIZE, 0), Pos(ParseFallback, ParseFallback)}

(***************************************************************************)
(* State                                                                   *)
(***************************************************************************)
VARIABLES
    pc,          \* per peer: "handshake", "hs_recv", "loop" (top of play_game's loop),
                 \* "await" (TakeShot sent, blocked in receive), "finished" (Ok(())),
                 \* "failed" (Err returned), "panicked", "idle" (no session)
    coord,       \* per peer: the GameCoordinator's fields
    net,         \* per peer: the NetworkConnection's fields
    local_turn,  \* per peer: play_game's local_turn
    chan,        \* per peer: the lines written to it and not yet read
    ev,          \* per peer: what its last step read, decided and wrote
    n_sent,      \* per peer: envelopes it has written
    n_acc,       \* per peer: envelopes receive_enveloped has returned to it
    sunk_seen,   \* per peer: ShipTypes it has seen Sunk in a ShotResult it took
    sent_by,     \* SpecAdv, per peer: the envelopes it has written
    acc_log,     \* SpecAdv, per peer: the envelopes returned to it, in order
    n_inject,    \* SpecAdv: the lines the adversary has injected
    board,       \* SpecBoard: the GameState under test
    op,          \* SpecBoard: the last call, its arguments, result and prior state
    late_place,  \* SpecBoard: a call has placed ships on a grid that had been shot at
    n_calls,     \* SpecBoard: the calls made on the GameState under test
    gm,          \* SpecMaster: run_game_master_interactive's p1, p2, turn and last input
    test,        \* SpecSim, SpecClones: the locals of the test that is running
    receipts     \* the lines appended to the audit logs receipts/<match id>.log

sessionVars == <<pc, coord, net, local_turn, chan, ev, n_sent, n_acc, sunk_seen>>

advVars == <<sent_by, acc_log, n_inject>>

boardVars == <<board, op, late_place, n_calls>>

localVars == <<gm, test, receipts>>

vars == <<pc, coord, net, local_turn, chan, ev, n_sent, n_acc, sunk_seen,
          sent_by, acc_log, n_inject, board, op, late_place, n_calls, gm, test, receipts>>

GameCoordinator_new(local_state, local_commit, player_name, starts_first) ==
    [local_state |-> local_state, local_commit |-> local_commit,
     player_name |-> player_name, starts_first |-> starts_first,
     opponent_name |-> None, opponent_commit |-> None,
     opponent_view |-> GameState_new(ZeroPepper)]

\* What a step of a peer leaves for inspection: the handler, the envelopes it
\* wrote, the line it read and receive_enveloped's status for it, the
\* connection and the opponent_commit before the step, the RoundCommit used,
\* the position of the TakeShot the peer last sent.
Event(name, sent, line, status, pre_net, pre_commit, rc, shot) ==
    [op |-> name, sent |-> sent, line |-> line, status |-> status,
     pre_net |-> pre_net, pre_commit |-> pre_commit, rc |-> rc, shot |-> shot]

NoEvent == Event("none", <<>>, None, "none", None, None, None, None)

(***************************************************************************)
(* host/src/network.rs: the BoardReady handshake                           *)
(***************************************************************************)
\* handshake_as_host up to its blocking receive: set match_id, send BoardReady.
handshake_as_host_send(conn, player_name, commitment, id) ==
    send_enveloped([conn EXCEPT !.match_id = Some(id)],
                   BoardReady(commitment, player_name), FreshUuid)

\* A mutant of handshake_as_client: the host's match_id is not adopted and the
\* reply goes out under a match id of the client's own.
handshake_as_client_own_id(conn, player_name, commitment, line) ==
    LET r == receive_enveloped(conn, line)
        env == r.env[1]
        s == send_enveloped([r.conn EXCEPT !.match_id = Some(FreshUuid)],
                            BoardReady(commitment, player_name), FreshUuid)
    IN  IF r.status # "ok" THEN [ok |-> FALSE, status |-> r.status, conn |-> r.conn, sent |-> <<>>]
        ELSE IF env.payload.tag # "BoardReady"
        THEN [ok |-> FALSE, status |-> r.status, conn |-> r.conn, sent |-> <<>>]
        ELSE [ok |-> TRUE, status |-> r.status, conn |-> s.conn, sent |-> <<s.env>>,
              name |-> env.payload.player_name, commitment |-> env.payload.commitment]

\* handshake_as_host from its receive on: the opponent's BoardReady, or Err.
handshake_as_host_recv(conn, line) ==
    LET r == receive_enveloped(conn, line)
        env == r.env[1]
    IN  IF r.status # "ok" THEN [ok |-> FALSE, status |-> r.status, conn |-> r.conn]
        ELSE IF env.payload.tag # "BoardReady"
        THEN [ok |-> FALSE, status |-> r.status, conn |-> r.conn]
        ELSE [ok |-> TRUE, status |-> r.status, conn |-> r.conn,
              name |-> env.payload.player_name, commitment |-> env.payload.commitment]

\* handshake_as_client: receive the host's BoardReady, adopt its match_id, reply.
handshake_as_client(conn, player_name, commitment, line) ==
    LET r == receive_enveloped(conn, line)
        env == r.env[1]
        s == send_enveloped([r.conn EXCEPT !.match_id = Some(env.match_id)],
                            BoardReady(commitment, player_name), FreshUuid)
    IN  IF r.status # "ok" THEN [ok |-> FALSE, status |-> r.status, conn |-> r.conn, sent |-> <<>>]
        ELSE IF env.payload.tag # "BoardReady"
        THEN [ok |-> FALSE, status |-> r.status, conn |-> r.conn, sent |-> <<>>]
        ELSE [ok |-> TRUE, status |-> r.status, conn |-> s.conn, sent |-> <<s.env>>,
              name |-> env.payload.player_name, commitment |-> env.payload.commitment]

RECURSIVE Lines(_)
Lines(envs) == IF envs = <<>> THEN <<>> ELSE <<to_json(envs[1])>> \o Lines(Tail(envs))

\* GameCoordinator::handshake, host branch, first half.
HostHandshakeSend(p) ==
    /\ pc[p] = "handshake" /\ coord[p].starts_first
    /\ \E id \in MatchIds :
          LET s == handshake_as_host_send(net[p], coord[p].player_name,
                                          coord[p].local_commit, id)
          IN  /\ net' = [net EXCEPT ![p] = s.conn]
              /\ chan' = [chan EXCEPT ![Other(p)] = Append(@, s.line)]
              /\ ev' = [ev EXCEPT ![p] = Event("hs_send", <<s.env>>, None, "none",
                                               net[p], coord[p].opponent_commit, None, None)]
    /\ pc' = [pc EXCEPT ![p] = "hs_recv"]
    /\ UNCHANGED <<coord, local_turn, sunk_seen>>

\* GameCoordinator::handshake, host branch, second half; play_game then starts
\* with local_turn = starts_first.
HostHandshakeRecv(p) ==
    /\ pc[p] = "hs_recv" /\ chan[p] # <<>>
    /\ LET h == handshake_as_host_recv(net[p], Head(chan[p]))
       IN  /\ net' = [net EXCEPT ![p] = h.conn]
           /\ coord' = IF h.ok
                       THEN [coord EXCEPT ![p].opponent_name = Some(h.name),
                                          ![p].opponent_commit = Some(h.commitment)]
                       ELSE coord
           /\ pc' = [pc EXCEPT ![p] = IF h.ok THEN "loop" ELSE "failed"]
           /\ ev' = [ev EXCEPT ![p] = Event("hs_recv", <<>>, Some(Head(chan[p])), h.status,
                                            net[p], coord[p].opponent_commit, None, None)]
    /\ chan' = [chan EXCEPT ![p] = Tail(@)]
    /\ local_turn' = [local_turn EXCEPT ![p] = coord[p].starts_first]
    /\ UNCHANGED sunk_seen

\* GameCoordinator::handshake, client branch; play_game then starts.
ClientHandshake(p) ==
    /\ pc[p] = "handshake" /\ ~coord[p].starts_first /\ chan[p] # <<>>
    /\ LET h == handshake_as_client(net[p], coord[p].player_name, coord[p].local_commit,
                                    Head(chan[p]))
       IN  /\ net' = [net EXCEPT ![p] = h.conn]
           /\ coord' = IF h.ok
                       THEN [coord EXCEPT ![p].opponent_name = Some(h.name),
                                          ![p].opponent_commit = Some(h.commitment)]
                       ELSE coord
           /\ pc' = [pc EXCEPT ![p] = IF h.ok THEN "loop" ELSE "failed"]
           /\ chan' = [chan EXCEPT ![p] = Tail(@), ![Other(p)] = @ \o Lines(h.sent)]
           /\ ev' = [ev EXCEPT ![p] = Event("hs_client", h.sent, Some(Head(chan[p])), h.status,
                                            net[p], coord[p].opponent_commit, None, None)]
    /\ local_turn' = [local_turn EXCEPT ![p] = coord[p].starts_first]
    /\ UNCHANGED sunk_seen

(***************************************************************************)
(* host/src/game.rs: GameCoordinator::play_game                            *)
(***************************************************************************)
\* A mutant of the shooter's turn rule: Sunk keeps the turn, as Hit does.
ShooterTurnAfter_sunk_keeps(hit) == hit.tag # "Miss"

\* A mutant of the shooter's turn rule: Hit passes the turn too.
ShooterTurnAfter_hit_passes(hit) == FALSE

\* The shooter's local_turn after a ShotResult with this hit.
ShooterTurnAfter(hit) ==
    CASE hit.tag = "Miss" -> FALSE
      [] hit.tag = "Hit" -> TRUE
      [] hit.tag = "Sunk" -> FALSE

\* A mutant of the defender's turn rule: Sunk leaves the turn with the shooter.
DefenderTurnAfter_sunk_stays(hit) == hit.tag = "Miss"

\* The defender's local_turn after it answered a TakeShot with this hit.
DefenderTurnAfter(hit) ==
    CASE hit.tag = "Miss" -> TRUE
      [] hit.tag = "Hit" -> FALSE
      [] hit.tag = "Sunk" -> TRUE

Outcome(c, conn, turn, sent, how, rc) ==
    [coord |-> c, conn |-> conn, turn |-> turn, sent |-> sent, outcome |-> how, rc |-> rc]

\* The shooter's handling of the envelope that follows its TakeShot.  outcome:
\* "continue" (next loop iteration), "err" (? returns Err), "panic" (unwrap of
\* an empty commit list, or a grid index of 10 or more).
\* With rc, the last RoundCommit of the journal: opponent_commit is set, then
\* opponent_view.grid[y][x] is written (a panic when out of range), then the turn.
shooter_on_commit(c, conn, turn, pos, rc) ==
    IF ~in_bounds(pos)
    THEN Outcome([c EXCEPT !.opponent_commit = Some(rc.new_state)],
                 conn, turn, <<>>, "panic", Some(rc))
    ELSE Outcome([c EXCEPT !.opponent_commit = Some(rc.new_state),
                           !.opponent_view.grid[pos.y][pos.x] =
                               IF rc.hit.tag = "Miss" THEN "Miss" ELSE "Hit"],
                 conn, ShooterTurnAfter(rc.hit), <<>>, "continue", Some(rc))

shooter_on_commits(c, conn, turn, pos, commits) ==
    IF ~commits.ok THEN Outcome(c, conn, turn, <<>>, "err", None)
    ELSE IF commits.val = <<>> THEN Outcome(c, conn, turn, <<>>, "panic", None)
    ELSE shooter_on_commit(c, conn, turn, pos, Last(commits.val))

shooter_on_receipt(c, conn, turn, pos, receipt) ==
    IF ~receipt.ok THEN Outcome(c, conn, turn, <<>>, "err", None)
    ELSE shooter_on_commits(c, conn, turn, pos, extract_round_commits(receipt.val))

shooter_on_envelope(c, conn, turn, env) ==
    IF env.payload.tag # "ShotResult" THEN Outcome(c, conn, turn, <<>>, "continue", None)
    ELSE shooter_on_receipt(c, conn, turn, env.payload.position,
                            receipt_from_proofdata(env.payload.proof))

\* The defender's answer to a TakeShot, once the proof is there: the shot is
\* applied to local_state, the ShotResult goes out, the turn follows rc.hit.
\* A mutant of defender_answer: the shot is not applied to local_state.
defender_answer_unapplied(c, pos, rc, reply) ==
    Outcome(c, reply.conn, DefenderTurnAfter(rc.hit), <<reply.env>>, "continue", Some(rc))

defender_answer(c, pos, rc, reply) ==
    Outcome([c EXCEPT !.local_state = apply_shot(@, pos).state], reply.conn,
            DefenderTurnAfter(rc.hit), <<reply.env>>, "continue", Some(rc))

defender_on_commit(c, conn, pos, receipt, rc) ==
    defender_answer(c, pos, rc,
                    send_enveloped(conn, ShotResult(pos, rc.hit,
                                                    proofdata_from_receipt(receipt, rc)),
                                   FreshUuid))

defender_on_commits(c, conn, turn, pos, receipt, commits) ==
    IF ~commits.ok THEN Outcome(c, conn, turn, <<>>, "err", None)
    ELSE IF commits.val = <<>> THEN Outcome(c, conn, turn, <<>>, "panic", None)
    ELSE defender_on_commit(c, conn, pos, receipt, Last(commits.val))

\* A mutant of defender_refuse: the turn is taken as after a Miss.
defender_refuse_takes_turn(c, turn, sorry) ==
    Outcome(c, sorry.conn, TRUE, <<sorry.env>>, "continue", None)

\* The prover failed: an Error envelope goes out and the loop continues.
defender_refuse(c, turn, sorry) ==
    Outcome(c, sorry.conn, turn, <<sorry.env>>, "continue", None)

defender_on_proof(c, conn, turn, pos, proof) ==
    IF ~proof.ok
    THEN defender_refuse(c, turn,
                         send_enveloped(conn, ErrorMsg(<<"prover unavailable: ", proof.err>>),
                                        FreshUuid))
    ELSE defender_on_commits(c, conn, turn, pos, proof.val,
                             extract_round_commits(proof.val))

\* A ShotResult read while local_turn is false: only the turn is updated.
remote_on_commits(c, conn, turn, commits) ==
    IF ~commits.ok THEN Outcome(c, conn, turn, <<>>, "err", None)
    ELSE IF commits.val = <<>> THEN Outcome(c, conn, turn, <<>>, "panic", None)
    ELSE Outcome(c, conn, ShooterTurnAfter(Last(commits.val).hit), <<>>, "continue",
                 Some(Last(commits.val)))

remote_on_receipt(c, conn, turn, receipt) ==
    IF ~receipt.ok THEN Outcome(c, conn, turn, <<>>, "err", None)
    ELSE remote_on_commits(c, conn, turn, extract_round_commits(receipt.val))

\* The defender's handling of an envelope read while local_turn is false.
\* outcome as above, and "break" (GameOver: the loop ends, Ok(())).
defender_on_envelope(c, conn, turn, env, prover_up) ==
    CASE env.payload.tag = "TakeShot" ->
           defender_on_proof(c, conn, turn, env.payload.position,
                             produce_and_verify_proof(
                                 GuestInput(c.local_state, <<env.payload.position>>),
                                 prover_up))
      [] env.payload.tag = "ShotResult" ->
           remote_on_receipt(c, conn, turn, receipt_from_proofdata(env.payload.proof))
      [] env.payload.tag = "BoardReady" -> Outcome(c, conn, turn, <<>>, "continue", None)
      [] env.payload.tag = "GameOver" -> Outcome(c, conn, turn, <<>>, "break", None)
      [] env.payload.tag = "Error" -> Outcome(c, conn, turn, <<>>, "continue", None)

PcAfter(how) ==
    CASE how = "continue" -> "loop"
      [] how = "err" -> "failed"
      [] how = "panic" -> "panicked"
      [] how = "break" -> "finished"

Early(p) == net[p].next_seq < MaxEarly

\* Spec: what a player may type besides the next cell of its list, and
\* whether the prover may be down.
OffList(p) == IF Early(p) THEN ExtraShots ELSE {}

ProverStates(p) == IF Early(p) THEN BOOLEAN ELSE {TRUE}

\* local_turn: a line that does not split in two is refused and the loop repeats.
PlayInvalidInput(p) ==
    /\ pc[p] = "loop" /\ local_turn[p] /\ Early(p)
    /\ ev' = [ev EXCEPT ![p] = Event("invalid_input", <<>>, None, "none", net[p],
                                     coord[p].opponent_commit, None, None)]
    /\ UNCHANGED <<pc, coord, net, local_turn, chan, sunk_seen>>

\* local_turn: the player's x y goes out as TakeShot; the peer blocks in receive.
PlayTakeShot(p, off_list) ==
    /\ pc[p] = "loop" /\ local_turn[p]
    /\ \E pos \in NextTarget(coord[p].opponent_view) \cup off_list :
          LET s == send_enveloped(net[p], TakeShot(pos), FreshUuid)
          IN  /\ net' = [net EXCEPT ![p] = s.conn]
              /\ chan' = [chan EXCEPT ![Other(p)] = Append(@, s.line)]
              /\ ev' = [ev EXCEPT ![p] = Event("take_shot", <<s.env>>, None, "none", net[p],
                                               coord[p].opponent_commit, None, Some(pos))]
    /\ pc' = [pc EXCEPT ![p] = "await"]
    /\ UNCHANGED <<coord, local_turn, sunk_seen>>

\* local_turn: the envelope after the TakeShot arrives.  r is what
\* receive_enveloped returned, h what the match on the payload did.
ShooterStep(p, r, h, took) ==
    /\ net' = [net EXCEPT ![p] = h.conn]
    /\ coord' = [coord EXCEPT ![p] = h.coord]
    /\ local_turn' = [local_turn EXCEPT ![p] = h.turn]
    /\ pc' = [pc EXCEPT ![p] = PcAfter(h.outcome)]
    /\ sunk_seen' = [sunk_seen EXCEPT ![p] =
                       IF took /\ h.rc[1].hit.tag = "Sunk"
                       THEN @ \cup {h.rc[1].hit.ship_type} ELSE @]
    /\ ev' = [ev EXCEPT ![p] = Event(IF took THEN "shot_result" ELSE "shooter_other",
                                     <<>>, Some(Head(chan[p])), r.status, net[p],
                                     coord[p].opponent_commit, h.rc, ev[p].shot)]
    /\ chan' = [chan EXCEPT ![p] = Tail(@)]

PlayShooterRecv(p) ==
    /\ pc[p] = "await" /\ chan[p] # <<>>
    /\ \E r \in {receive_enveloped(net[p], Head(chan[p]))} :
       \E h \in {IF r.status = "ok"
                 THEN shooter_on_envelope(coord[p], r.conn, local_turn[p], r.env[1])
                 ELSE Outcome(coord[p], r.conn, local_turn[p], <<>>, "err", None)} :
          ShooterStep(p, r, h, r.status = "ok" /\ r.env[1].payload.tag = "ShotResult"
                                 /\ h.outcome = "continue")

\* not local_turn: an envelope arrives and is dispatched on its payload.
DefenderStep(p, r, h) ==
    /\ net' = [net EXCEPT ![p] = h.conn]
    /\ coord' = [coord EXCEPT ![p] = h.coord]
    /\ local_turn' = [local_turn EXCEPT ![p] = h.turn]
    /\ pc' = [pc EXCEPT ![p] = PcAfter(h.outcome)]
    /\ chan' = [chan EXCEPT ![p] = Tail(@), ![Other(p)] = @ \o Lines(h.sent)]
    /\ ev' = [ev EXCEPT ![p] = Event("defender", h.sent, Some(Head(chan[p])), r.status,
                                     net[p], coord[p].opponent_commit, h.rc, ev[p].shot)]
    /\ UNCHANGED sunk_seen

PlayDefenderRecv(p, prover_states) ==
    /\ pc[p] = "loop" /\ ~local_turn[p] /\ chan[p] # <<>>
    /\ \E prover_up \in prover_states :
       \E r \in {receive_enveloped(net[p], Head(chan[p]))} :
       \E h \in {IF r.status = "ok"
                 THEN defender_on_envelope(coord[p], r.conn, local_turn[p], r.env[1],
                                           prover_up)
                 ELSE Outcome(coord[p], r.conn, local_turn[p], <<>>, "err", None)} :
          DefenderStep(p, r, h)

(***************************************************************************)
(* Specification Spec: two honest peers over a reliable in-order channel   *)
(***************************************************************************)
\* The counters of envelopes written and returned, read off the channels.
Grown(q) == IF Len(chan'[q]) > Len(chan[q]) THEN Len(chan'[q]) - Len(chan[q]) ELSE 0

Took(p) == Len(chan'[p]) < Len(chan[p]) /\ ev'[p].status = "ok"

Count ==
    /\ n_sent' = [p \in Peers |-> n_sent[p] + Grown(Other(p))]
    /\ n_acc' = [p \in Peers |-> n_acc[p] + IF Took(p) THEN 1 ELSE 0]

Honest == Count /\ UNCHANGED advVars /\ UNCHANGED boardVars /\ UNCHANGED localVars

InitSession ==
    /\ pc = [p \in Peers |-> "handshake"]
    /\ coord = [p \in Peers |->
                  GameCoordinator_new(InitialBoard(p), commit(InitialBoard(p)),
                                      PlayerName(p), p = "host")]
    /\ net = [p \in Peers |-> NetworkConnection_new(MatchSecret)]
    /\ local_turn = [p \in Peers |-> p = "host"]
    /\ chan = [p \in Peers |-> <<>>]
    /\ ev = [p \in Peers |-> NoEvent]
    /\ n_sent = [p \in Peers |-> 0]
    /\ n_acc = [p \in Peers |-> 0]
    /\ sunk_seen = [p \in Peers |-> {}]

InitAdv ==
    /\ sent_by = [p \in Peers |-> {}]
    /\ acc_log = [p \in Peers |-> <<>>]
    /\ n_inject = 0

\* No game master and no test is running.
InitLocalIdle == gm = [turn |-> 0] /\ test = [name |-> "none"] /\ receipts = <<>>

InitBoardIdle ==
    /\ board = GameState_new(ZeroPepper)
    /\ op = [name |-> "none", args |-> None, before |-> GameState_new(ZeroPepper),
             result |-> None]
    /\ late_place = FALSE
    /\ n_calls = 0

Init == InitSession /\ InitAdv /\ InitBoardIdle /\ InitLocalIdle

Next ==
    \/ \E p \in Peers : HostHandshakeSend(p) /\ Honest
    \/ \E p \in Peers : HostHandshakeRecv(p) /\ Honest
    \/ \E p \in Peers : ClientHandshake(p) /\ Honest
    \/ \E p \in Peers : PlayInvalidInput(p) /\ Honest
    \/ \E p \in Peers : PlayTakeShot(p, OffList(p)) /\ Honest
    \/ \E p \in Peers : PlayShooterRecv(p) /\ Honest
    \/ \E p \in Peers : PlayDefenderRecv(p, ProverStates(p)) /\ Honest

Spec == Init /\ [][Next]_vars

\* The handshake has no user input: a peer in it runs whenever it can.
HandshakeStep(p) ==
    (HostHandshakeSend(p) \/ HostHandshakeRecv(p) \/ ClientHandshake(p)) /\ Honest

FairSpec == Spec /\ \A p \in Peers : WF_vars(HandshakeStep(p))

\* Specification SpecLive: the prover always succeeds, and a peer blocked in
\* receive_enveloped runs when a line is there.  What the players type, and
\* when, is theirs to choose: read_line may block for ever.
\* RecvReady(p) is when such a step of p is enabled (the handlers are total)
\* and RecvDone(p) is what only such a step does, so that the last conjunct
\* of SpecLive is weak fairness of p's receiving steps.
RecvReady(p) ==
    /\ chan[p] # <<>>
    /\ pc[p] = "await" \/ (pc[p] = "loop" /\ ~local_turn[p])

RecvDone(p) == Len(chan'[p]) < Len(chan[p])

NextLive ==
    \/ \E p \in Peers : HostHandshakeSend(p) /\ Honest
    \/ \E p \in Peers : HostHandshakeRecv(p) /\ Honest
    \/ \E p \in Peers : ClientHandshake(p) /\ Honest
    \/ \E p \in Peers : PlayInvalidInput(p) /\ Honest
    \/ \E p \in Peers : PlayTakeShot(p, OffList(p)) /\ Honest
    \/ \E p \in Peers : PlayShooterRecv(p) /\ Honest
    \/ \E p \in Peers : PlayDefenderRecv(p, {TRUE}) /\ Honest

SpecLive ==
    /\ Init /\ [][NextLive]_vars
    /\ \A p \in Peers : WF_vars(HandshakeStep(p))
    /\ \A p \in Peers : []<>(~RecvReady(p)) \/ []<><<RecvDone(p)>>_vars

(***************************************************************************)
(* Specification SpecAdv: a short session with an adversary on the channel *)
(* and a defender that may answer with an earlier proof                    *)
(***************************************************************************)
Short == n_sent["host"] + n_sent["client"] < MaxAdvSends

\* The lines a step of Other(q) has written to q's stream.
NewLines(q) == {chan'[q][i] : i \in (Len(chan'[q]) - Grown(q) + 1)..Len(chan'[q])}

Log ==
    /\ sent_by' = [p \in Peers |-> sent_by[p] \cup {l.json : l \in NewLines(Other(p))}]
    /\ acc_log' = [p \in Peers |->
                     IF Took(p) THEN Append(acc_log[p], ev'[p].line[1].json) ELSE acc_log[p]]

Tracked == Count /\ Log /\ UNCHANGED n_inject /\ UNCHANGED boardVars /\ UNCHANGED localVars

\* A defender that answers a TakeShot with the proof of an earlier round of
\* its own, in a fresh envelope, and leaves its board as it is.
DefenderReplaysProof(p) ==
    /\ pc[p] = "loop" /\ ~local_turn[p] /\ chan[p] # <<>> /\ Short
    /\ \E r \in {receive_enveloped(net[p], Head(chan[p]))} :
          /\ r.status = "ok" /\ r.env[1].payload.tag = "TakeShot"
          /\ \E old \in {e \in sent_by[p] : e.payload.tag = "ShotResult"} :
             \E s \in {send_enveloped(r.conn,
                                      ShotResult(r.env[1].payload.position,
                                                 old.payload.hit_type, old.payload.proof),
                                      FreshUuid)} :
                /\ net' = [net EXCEPT ![p] = s.conn]
                /\ chan' = [chan EXCEPT ![p] = Tail(@), ![Other(p)] = Append(@, s.line)]
                /\ local_turn' = [local_turn EXCEPT
                                    ![p] = DefenderTurnAfter(old.payload.hit_type)]
                /\ ev' = [ev EXCEPT ![p] = Event("defender_replay", <<s.env>>,
                                                 Some(Head(chan[p])), r.status, net[p],
                                                 coord[p].opponent_commit,
                                                 Some(old.payload.proof.commit), ev[p].shot)]
    /\ UNCHANGED <<pc, coord, sunk_seen>>

\* The adversary reads every line that is written.
Seen == {to_json(e) : e \in sent_by["host"] \cup sent_by["client"]}

\* What the adversary, who has no match_secret, can make of a line it has
\* seen: another match_id, seq or payload under the old token, no token, a
\* token under a key of its own, the token of another line of the same seq.
Altered(l) ==
    { to_json([l.json EXCEPT !.match_id = "uuid-forged"]),
      to_json([l.json EXCEPT !.seq = @ + 1]),
      to_json([l.json EXCEPT !.payload = ErrorMsg(<<"forged">>)]),
      to_json([l.json EXCEPT !.auth_token = None]),
      to_json([l.json EXCEPT !.auth_token = Some(AuthToken("adversary-key", l.json))]) }
      \cup {to_json([l.json EXCEPT !.auth_token = o.json.auth_token]) :
               o \in {w \in Seen \ {l} : w.json.seq = l.json.seq}}

NotJson == [raw |-> "not an envelope"]

\* The adversary writes a line to a peer's stream: one it has seen, as it was
\* (re-delivered to the peer it was sent to, or reflected to its sender), an
\* altered one, or one that is no envelope.
AdvInject ==
    /\ n_inject < MaxInject
    /\ \E q \in Peers :
       \E l \in Seen \cup UNION {Altered(w) : w \in Seen} \cup {NotJson} :
          chan' = [chan EXCEPT ![q] = Append(@, l)]
    /\ n_inject' = n_inject + 1
    /\ UNCHANGED <<pc, coord, net, local_turn, ev, n_sent, n_acc, sunk_seen>>
    /\ UNCHANGED <<sent_by, acc_log>>
    /\ UNCHANGED boardVars
    /\ UNCHANGED localVars

NextAdv ==
    \/ \E p \in Peers : Short /\ HostHandshakeSend(p) /\ Tracked
    \/ \E p \in Peers : HostHandshakeRecv(p) /\ Tracked
    \/ \E p \in Peers : Short /\ ClientHandshake(p) /\ Tracked
    \/ \E p \in Peers : Short /\ PlayTakeShot(p, {}) /\ Tracked
    \/ \E p \in Peers : PlayShooterRecv(p) /\ Tracked
    \/ \E p \in Peers : Short /\ PlayDefenderRecv(p, {TRUE}) /\ Tracked
    \/ \E p \in Peers : DefenderReplaysProof(p) /\ Tracked
    \/ AdvInject

SpecAdv == Init /\ [][NextAdv]_vars

(***************************************************************************)
(* Specification SpecRogue: a short session in which a peer may write a    *)
(* ShotResult play_game would not have written at that point               *)
(***************************************************************************)
\* The cells a departing peer proves a shot at.
RogueCells == {Pos(0, 0), Pos(9, 9)}

\* A defender that reads a TakeShot and answers as play_game does, but for a
\* cell other than the one asked for: proof, reply and board are those of `other`.
RogueAnswersOtherCell(p) ==
    /\ pc[p] = "loop" /\ ~local_turn[p] /\ chan[p] # <<>> /\ Short
    /\ \E r \in {receive_enveloped(net[p], Head(chan[p]))} :
          /\ r.status = "ok" /\ r.env[1].payload.tag = "TakeShot"
          /\ \E other \in RogueCells \ {r.env[1].payload.position} :
             \E h \in {defender_on_envelope(coord[p], r.conn, local_turn[p],
                                            [r.env[1] EXCEPT !.payload = TakeShot(other)],
                                            TRUE)} :
                /\ net' = [net EXCEPT ![p] = h.conn]
                /\ coord' = [coord EXCEPT ![p] = h.coord]
                /\ local_turn' = [local_turn EXCEPT ![p] = h.turn]
                /\ pc' = [pc EXCEPT ![p] = PcAfter(h.outcome)]
                /\ chan' = [chan EXCEPT ![p] = Tail(@), ![Other(p)] = @ \o Lines(h.sent)]
                /\ ev' = [ev EXCEPT ![p] = Event("rogue_answer", h.sent,
                                                 Some(Head(chan[p])), r.status, net[p],
                                                 coord[p].opponent_commit, h.rc, ev[p].shot)]
    /\ UNCHANGED sunk_seen

\* A peer whose turn it is writes, instead of a TakeShot, a ShotResult with a
\* proof of a shot at its own board, and stays where it was.
RogueUnsolicitedResult(p) ==
    /\ pc[p] = "loop" /\ local_turn[p] /\ Short
    /\ \E c \in RogueCells :
       \E proof \in {produce_and_verify_proof(GuestInput(coord[p].local_state, <<c>>),
                                              TRUE)} :
          /\ proof.ok
          /\ \E rc \in {Last(extract_round_commits(proof.val).val)} :
             \E s \in {send_enveloped(net[p],
                                      ShotResult(c, rc.hit,
                                                 proofdata_from_receipt(proof.val, rc)),
                                      FreshUuid)} :
                /\ net' = [net EXCEPT ![p] = s.conn]
                /\ chan' = [chan EXCEPT ![Other(p)] = Append(@, s.line)]
                /\ ev' = [ev EXCEPT ![p] = Event("rogue_unsolicited", <<s.env>>, None,
                                                 "none", net[p], coord[p].opponent_commit,
                                                 Some(rc), ev[p].shot)]
    /\ UNCHANGED <<pc, coord, local_turn, sunk_seen>>

NextRogue ==
    \/ \E p \in Peers : Short /\ HostHandshakeSend(p) /\ Honest
    \/ \E p \in Peers : HostHandshakeRecv(p) /\ Honest
    \/ \E p \in Peers : Short /\ ClientHandshake(p) /\ Honest
    \/ \E p \in Peers : Short /\ PlayTakeShot(p, {}) /\ Honest
    \/ \E p \in Peers : PlayShooterRecv(p) /\ Honest
    \/ \E p \in Peers : Short /\ PlayDefenderRecv(p, {TRUE}) /\ Honest
    \/ \E p \in Peers : RogueAnswersOtherCell(p) /\ Honest
    \/ \E p \in Peers : RogueUnsolicitedResult(p) /\ Honest

SpecRogue == Init /\ [][NextRogue]_vars

(***************************************************************************)
(* Specification SpecFleets: a short session between peers constructed on  *)
(* any GameState, validated or not                                         *)
(***************************************************************************)
\* GameCoordinator::new takes the GameState it is given: the rows and columns
\* fleets, a fleet of four ships, one with a ship across another, one with
\* the Carrier off the board.
FleetInputs ==
    { RowsBoard, ColsBoard,
      [GameState_new(ZeroPepper) EXCEPT !.ships = SubSeq(RowsBoard.ships, 1, 4)],
      [GameState_new(ZeroPepper) EXCEPT
          !.ships = [RowsBoard.ships EXCEPT
                        ![5] = Ship_new("Destroyer", Pos(4, 0), "Vertical")]],
      [GameState_new(ZeroPepper) EXCEPT
          !.ships = [RowsBoard.ships EXCEPT
                        ![1] = Ship_new("Carrier", Pos(6, 0), "Horizontal")]] }

InitFleets ==
    /\ pc = [p \in Peers |-> "handshake"]
    /\ \E fleet \in [Peers -> FleetInputs] :
          coord = [p \in Peers |->
                     GameCoordinator_new(fleet[p], commit(fleet[p]),
                                         PlayerName(p), p = "host")]
    /\ net = [p \in Peers |-> NetworkConnection_new(MatchSecret)]
    /\ local_turn = [p \in Peers |-> p = "host"]
    /\ chan = [p \in Peers |-> <<>>]
    /\ ev = [p \in Peers |-> NoEvent]
    /\ n_sent = [p \in Peers |-> 0]
    /\ n_acc = [p \in Peers |-> 0]
    /\ sunk_seen = [p \in Peers |-> {}]
    /\ InitAdv /\ InitBoardIdle /\ InitLocalIdle

NextFleets ==
    \/ \E p \in Peers : Short /\ HostHandshakeSend(p) /\ Honest
    \/ \E p \in Peers : HostHandshakeRecv(p) /\ Honest
    \/ \E p \in Peers : Short /\ ClientHandshake(p) /\ Honest
    \/ \E p \in Peers : Short /\ PlayTakeShot(p, {}) /\ Honest
    \/ \E p \in Peers : PlayShooterRecv(p) /\ Honest
    \/ \E p \in Peers : Short /\ PlayDefenderRecv(p, {TRUE}) /\ Honest

SpecFleets == InitFleets /\ [][NextFleets]_vars

(***************************************************************************)
(* Specification SpecCoordinator: a short session between two peers that   *)
(* run play_game as host/src/game_coordinator.rs has it                    *)
(***************************************************************************)
\* game_coordinator.rs, the shooter's handling of the envelope that follows
\* its TakeShot: with rc, the last RoundCommit, the shot is applied to the
\* peer's own local_state and the turn is set from rc.hit.
coordinator_shooter_on_commits(c, conn, turn, pos, commits) ==
    IF ~commits.ok THEN Outcome(c, conn, turn, <<>>, "err", None)
    ELSE IF commits.val = <<>> THEN Outcome(c, conn, turn, <<>>, "panic", None)
    ELSE Outcome([c EXCEPT !.local_state = apply_shot(@, pos).state], conn,
                 CASE Last(commits.val).hit.tag = "Miss" -> TRUE
                   [] Last(commits.val).hit.tag = "Hit" -> FALSE
                   [] Last(commits.val).hit.tag = "Sunk" -> TRUE,
                 <<>>, "continue", Some(Last(commits.val)))

coordinator_shooter_on_receipt(c, conn, turn, pos, receipt) ==
    IF ~receipt.ok THEN Outcome(c, conn, turn, <<>>, "err", None)
    ELSE coordinator_shooter_on_commits(c, conn, turn, pos,
                                        extract_round_commits(receipt.val))

coordinator_shooter_on_envelope(c, conn, turn, env) ==
    IF env.payload.tag # "ShotResult" THEN Outcome(c, conn, turn, <<>>, "continue", None)
    ELSE coordinator_shooter_on_receipt(c, conn, turn, env.payload.position,
                                        receipt_from_proofdata(env.payload.proof))

CoordinatorShooterRecv(p) ==
    /\ pc[p] = "await" /\ chan[p] # <<>>
    /\ \E r \in {receive_enveloped(net[p], Head(chan[p]))} :
       \E h \in {IF r.status = "ok"
                 THEN coordinator_shooter_on_envelope(coord[p], r.conn, local_turn[p],
                                                      r.env[1])
                 ELSE Outcome(coord[p], r.conn, local_turn[p], <<>>, "err", None)} :
          ShooterStep(p, r, h, r.status = "ok" /\ r.env[1].payload.tag = "ShotResult"
                                 /\ h.outcome = "continue")

\* The branch for the opponent's turn is the one of game.rs as long as the
\* prover runs.
NextCoordinator ==
    \/ \E p \in Peers : Short /\ HostHandshakeSend(p) /\ Honest
    \/ \E p \in Peers : HostHandshakeRecv(p) /\ Honest
    \/ \E p \in Peers : Short /\ ClientHandshake(p) /\ Honest
    \/ \E p \in Peers : Short /\ PlayTakeShot(p, ExtraShots) /\ Honest
    \/ \E p \in Peers : CoordinatorShooterRecv(p) /\ Honest
    \/ \E p \in Peers : Short /\ PlayDefenderRecv(p, {TRUE}) /\ Honest

SpecCoordinator == Init /\ [][NextCoordinator]_vars

(***************************************************************************)
(* Specification SpecBoard: one GameState under place_ship and apply_shot  *)
(***************************************************************************)
\* The placements tried: two that fit, two that collide with them, a second
\* Destroyer, one that runs off the right edge, one that starts off the board.
PlaceInputs ==
    { <<"Destroyer", Pos(0, 0), "Horizontal">>, <<"Cruiser", Pos(0, 1), "Horizontal">>,
      <<"Cruiser", Pos(0, 0), "Vertical">>, <<"Destroyer", Pos(0, 1), "Vertical">>,
      <<"Destroyer", Pos(5, 5), "Vertical">>,
      <<"Carrier", Pos(6, 9), "Horizontal">>, <<"Carrier", Pos(BOARD_SIZE, 0), "Vertical">> }

\* The shots tried: the cells of those ships, open water, and off the board.
ShotInputs_board ==
    { Pos(0, 0), Pos(1, 0), Pos(0, 1), Pos(0, 2), Pos(9, 9),
      Pos(BOARD_SIZE, 0), Pos(0, BOARD_SIZE), Pos(ParseFallback, ParseFallback) }

\* The lists given to place_ships: none, a whole fleet, the two of
\* test_place_ships_iterative_partial_success, a failure between two
\* successes, and five types of which the last lies across the first.
ListInputs ==
    { <<>>, RowsFleet,
      << <<"Carrier", Pos(0, 0), "Horizontal">>, <<"Battleship", Pos(0, 0), "Vertical">> >>,
      << <<"Destroyer", Pos(0, 0), "Horizontal">>, <<"Destroyer", Pos(5, 5), "Vertical">>,
         <<"Cruiser", Pos(0, 1), "Horizontal">> >>,
      << <<"Carrier", Pos(0, 0), "Horizontal">>, <<"Battleship", Pos(0, 2), "Horizontal">>,
         <<"Cruiser", Pos(0, 4), "Horizontal">>, <<"Submarine", Pos(0, 6), "Horizontal">>,
         <<"Destroyer", Pos(4, 0), "Vertical">> >> }

\* The cells in the order place_ships_randomly builds them, x outermost.
AllPositions == [k \in 1..(BOARD_SIZE * BOARD_SIZE) |->
                   Pos((k - 1) \div BOARD_SIZE, (k - 1) % BOARD_SIZE)]

\* The shuffles tried: the cells as built, backwards from (0, 9), and in a stride of 37.
Shuffled(a) ==
    SubSeq([k \in 1..(BOARD_SIZE * BOARD_SIZE) |->
               AllPositions[((a[1] * (k - 1) + a[2]) % (BOARD_SIZE * BOARD_SIZE)) + 1]],
           1, BOARD_SIZE * BOARD_SIZE)

ShuffleInputs == {Shuffled(a) : a \in {<<1, 0>>, <<99, 9>>, <<37, 55>>}}

\* The states given to check besides the board under test: GameState's fields
\* are public and the guest reads its initial state from its input.
WithShips(ships) == [GameState_new(ZeroPepper) EXCEPT !.ships = ships]

CheckInputs ==
    { RowsBoard, ColsBoard,
      WithShips(SubSeq(RowsBoard.ships, 1, 4)),
      WithShips(Append(RowsBoard.ships, Ship_new("Destroyer", Pos(5, 9), "Horizontal"))),
      WithShips([RowsBoard.ships EXCEPT ![5] = Ship_new("Cruiser", Pos(0, 8), "Horizontal")]),
      WithShips([RowsBoard.ships EXCEPT ![5] = Ship_new("Destroyer", Pos(4, 0), "Vertical")]),
      WithShips([RowsBoard.ships EXCEPT ![1] = Ship_new("Carrier", Pos(6, 0), "Horizontal")]),
      WithShips([RowsBoard.ships EXCEPT ![1] = Ship_new("Carrier", Pos(0, 9), "Vertical")]) }

\* A placement call that changed ships while the grid had a shot in it.
LatePlace(name, after) ==
    \/ late_place
    \/ /\ name \in {"place_ship", "place_ships", "place_ships_randomly"}
       /\ board.grid # EmptyGrid /\ after.ships # board.ships

BoardStep(name, args, res, after) ==
    /\ board' = after
    /\ op' = [name |-> name, args |-> args, before |-> board, result |-> res]
    /\ late_place' = LatePlace(name, after)
    /\ n_calls < MaxCalls
    /\ n_calls' = n_calls + 1
    /\ UNCHANGED <<sessionVars, advVars, localVars>>

BoardPlaceShip ==
    \E a \in PlaceInputs :
    \E r \in {place_ship(board, a[1], a[2], a[3])} :
       BoardStep("place_ship", a, r.ok, r.state)

BoardPlaceShips ==
    \E list \in ListInputs :
    \E r \in {place_ships(board, list)} :
       BoardStep("place_ships", list, r.ok, r.state)

BoardPlaceShipsRandomly ==
    \E positions \in ShuffleInputs :
    \E r \in {place_ships_randomly(board, positions)} :
       BoardStep("place_ships_randomly", positions, r.ok, r.state)

BoardApplyShot ==
    \E shot \in ShotInputs_board :
    \E r \in {apply_shot(board, shot)} :
       BoardStep("apply_shot", shot, r.res, r.state)

InitBoard ==
    /\ InitSession /\ InitAdv /\ InitLocalIdle
    /\ board = GameState_new(ZeroPepper)
    /\ op = [name |-> "new", args |-> ZeroPepper, before |-> GameState_new(ZeroPepper),
             result |-> None]
    /\ late_place = FALSE
    /\ n_calls = 0

NextBoard ==
    \/ BoardPlaceShip
    \/ BoardPlaceShips
    \/ BoardPlaceShipsRandomly
    \/ BoardApplyShot

SpecBoard == InitBoard /\ [][NextBoard]_vars

(***************************************************************************)
(* Specification SpecQuery: can_place_ship and check on a given GameState  *)
(***************************************************************************)
\* The states queried: the ones above, a new one, what place_ships makes of
\* each list, and a Destroyer alone with its first cell hit.
QueryStates ==
    CheckInputs \cup {GameState_new(ZeroPepper)}
      \cup {place_ships(GameState_new(ZeroPepper), list).state : list \in ListInputs}
      \cup {apply_shot(place_ship(GameState_new(ZeroPepper),
                                  "Destroyer", Pos(0, 0), "Horizontal").state,
                       Pos(0, 0)).state}

\* The placements asked about: those above, the Carrier that just fits the
\* bottom row, one that runs off the bottom edge, and a Battleship down column 0.
QueryPlaceInputs ==
    PlaceInputs \cup { <<"Carrier", Pos(5, 9), "Horizontal">>,
                       <<"Carrier", Pos(0, 6), "Vertical">>,
                       <<"Battleship", Pos(0, 0), "Vertical">> }

BoardCanPlaceShip ==
    \E a \in QueryPlaceInputs :
       BoardStep("can_place_ship", a, can_place_ship(board, a[1], a[2], a[3]), board)

BoardCheck == BoardStep("check", None, check(board), board)

InitQuery ==
    /\ InitSession /\ InitAdv /\ InitLocalIdle
    /\ board \in QueryStates
    /\ op = [name |-> "given", args |-> None, before |-> board, result |-> None]
    /\ late_place = FALSE
    /\ n_calls = 0

NextQuery == BoardCanPlaceShip \/ BoardCheck

SpecQuery == InitQuery /\ [][NextQuery]_vars

(***************************************************************************)
(* host/src/proofs.rs: verify_shot_result_for_shooter and the audit log    *)
(***************************************************************************)
\* persist_receipt_and_commit: one line with the receipt's bytes in base64
\* and the commit as JSON is appended to the log; disk_ok is whether the
\* directory and the file can be written.  (The match id and the seq of the
\* line are read from fields RoundCommit does not declare.)
persist_receipt_and_commit(log, receipt, rc, disk_ok) ==
    IF ~disk_ok THEN Err("writing receipt log")
    ELSE Ok(Append(log, [receipt_b64 |-> Base64([bincode |-> receipt]),
                         commit |-> to_json(rc)]))

\* The first commit of the list with this shot, as the loop finds it when no
\* match id and seq are asked for.
RECURSIVE first_with_shot(_, _)
first_with_shot(commits, shot) ==
    IF commits = <<>> THEN None
    ELSE IF commits[1].shot = shot THEN Some(commits[1])
    ELSE first_with_shot(Tail(commits), shot)

\* What verify_shot_result_for_shooter returns and the log it leaves: a
\* failure to persist is only warned about.
Verdict(result, log) == [result |-> result, log |-> log]

shooter_on_found(log, receipt, expected_old, found, disk_ok) ==
    IF found = None
    THEN Verdict(Err("no matching RoundCommit found for shot/match/seq"), log)
    ELSE IF found[1].old_state # expected_old
    THEN Verdict(Err("commit.old_state does not match expected old digest"), log)
    ELSE IF disk_ok
    THEN Verdict(Ok(found[1]),
                 persist_receipt_and_commit(log, receipt, found[1], disk_ok).val)
    ELSE Verdict(Ok(found[1]), log)

shooter_on_extracted(log, receipt, expected_old, shot, commits, disk_ok) ==
    IF ~commits.ok THEN Verdict(commits, log)
    ELSE IF commits.val = <<>> THEN Verdict(Err("no round commits found in receipt"), log)
    ELSE shooter_on_found(log, receipt, expected_old,
                          first_with_shot(commits.val, shot), disk_ok)

verify_shot_result_for_shooter(log, receipt, expected_old, shot, disk_ok) ==
    IF receipt.seal # METHOD_ID THEN Verdict(Err("receipt verification failed"), log)
    ELSE shooter_on_extracted(log, receipt, expected_old, shot,
                              extract_round_commits(receipt), disk_ok)

(***************************************************************************)
(* Specification SpecGuest: the guest is run on an input, and the receipt  *)
(* is decoded and verified                                                 *)
(***************************************************************************)
\* The initial states handed to the guest: the two fleets, the first with a
\* shot already taken at its Carrier, and the states check() is asked about.
GuestStates == CheckInputs \cup {apply_shot(RowsBoard, Pos(0, 0)).state}

\* The shot lists: none, one cell, a cell twice, a cell off the board, a miss
\* then a hit, the Destroyer of the rows fleet sunk and a shot after it.
GuestShotLists ==
    { <<>>, <<Pos(0, 0)>>, <<Pos(0, 0), Pos(0, 0)>>, <<Pos(BOARD_SIZE, 0)>>,
      <<Pos(9, 9), Pos(0, 0)>>, <<Pos(0, 8), Pos(1, 8)>>,
      <<Pos(0, 8), Pos(1, 8), Pos(9, 9)>> }

\* The states a verifier may hold: the prover's initial state, that state
\* after the first shot of the list, and another player's board.
VerifierStates(input) ==
    {input.initial, ColsBoard}
      \cup (IF input.shots = <<>> THEN {}
            ELSE {apply_shot(input.initial, input.shots[1]).state})

VerifierShots(input) ==
    {input.shots[i] : i \in DOMAIN input.shots} \cup {Pos(9, 9), Pos(BOARD_SIZE, 0)}

GuestProve ==
    \E shots \in GuestShotLists : \E prover_up \in BOOLEAN :
       BoardStep("prove", GuestInput(board, shots),
                 produce_and_verify_proof(GuestInput(board, shots), prover_up), board)

GuestExtract ==
    /\ op.name = "prove" /\ op.result.ok
    /\ BoardStep("extract", [input |-> op.args, receipt |-> op.result.val],
                 extract_round_commits(op.result.val), board)

GuestVerify ==
    /\ op.name = "prove" /\ op.result.ok
    /\ \E server_state \in VerifierStates(op.args) : \E shot \in VerifierShots(op.args) :
          BoardStep("verify",
                    [input |-> op.args, receipt |-> op.result.val,
                     server_state |-> server_state, shot |-> shot],
                    verify_remote_round_proof(op.result.val, server_state, shot), board)

\* verify_shot_result_for_shooter on the receipt just proved; no caller of
\* it is in play_game or the game master.
GuestVerifyForShooter ==
    /\ op.name = "prove" /\ op.result.ok
    /\ n_calls < MaxCalls
    /\ \E server_state \in VerifierStates(op.args) : \E shot \in VerifierShots(op.args) :
       \E disk_ok \in BOOLEAN :
       \E v \in {verify_shot_result_for_shooter(receipts, op.result.val,
                                                commit(server_state), shot, disk_ok)} :
          /\ op' = [name |-> "verify_for_shooter",
                    args |-> [input |-> op.args, receipt |-> op.result.val,
                              expected_old |-> commit(server_state), shot |-> shot,
                              disk_ok |-> disk_ok],
                    before |-> board, result |-> v.result]
          /\ receipts' = v.log
    /\ n_calls' = n_calls + 1
    /\ UNCHANGED <<sessionVars, advVars, board, late_place, gm, test>>

InitGuest ==
    /\ InitSession /\ InitAdv /\ InitLocalIdle
    /\ board \in GuestStates
    /\ op = [name |-> "given", args |-> None, before |-> board, result |-> None]
    /\ late_place = FALSE
    /\ n_calls = 0

NextGuest == GuestProve \/ GuestExtract \/ GuestVerify \/ GuestVerifyForShooter

SpecGuest == InitGuest /\ [][NextGuest]_vars

(***************************************************************************)
(* core/src/lib.rs: Distribution<GameState> for Standard                   *)
(***************************************************************************)
\* The sampler's own test of a candidate ship: fewer than NUM_SHIPS placed,
\* and no ship placed has its type or one of its cells.
sample_fits(state, ship) ==
    /\ Len(state.ships) < NUM_SHIPS
    /\ ~\E i \in DOMAIN state.ships :
          \/ state.ships[i].ship_type = ship.ship_type
          \/ CoordSet(ship) \cap CoordSet(state.ships[i]) # {}

\* The first position, Horizontal before Vertical, where a ship of type t
\* passes; the panic when there is none.
RECURSIVE sample_first_fit(_, _, _, _)
sample_first_fit(state, t, positions, k) ==
    IF k > Len(positions) THEN Err("Failed to place")
    ELSE IF sample_fits(state, Ship_new(t, positions[k], "Horizontal"))
    THEN Ok([state EXCEPT !.ships = Append(@, Ship_new(t, positions[k], "Horizontal"))])
    ELSE IF sample_fits(state, Ship_new(t, positions[k], "Vertical"))
    THEN Ok([state EXCEPT !.ships = Append(@, Ship_new(t, positions[k], "Vertical"))])
    ELSE sample_first_fit(state, t, positions, k + 1)

\* The loop over the five ship types, then assert!(state.check()).
RECURSIVE sample_from(_, _, _)
sample_step(positions, i, one) ==
    IF ~one.ok THEN one ELSE sample_from(one.val, positions, i + 1)

sample_from(state, positions, i) ==
    IF i > NUM_SHIPS
    THEN IF check(state) THEN Ok(state) ELSE Err("assertion failed: state.check()")
    ELSE sample_step(positions, i, sample_first_fit(state, ShipTypes[i], positions, 1))

\* sample(rng): positions is the shuffle and pepper the 16 bytes drawn from rng;
\* the GameState returned, or the panic.
sample(positions, pepper) == sample_from(GameState_new(pepper), positions, 1)

(***************************************************************************)
(* Specification SpecSample: a GameState is drawn with rand::random and    *)
(* then checked and shot at                                                *)
(***************************************************************************)
\* The shuffles the random source may give: those above and the cells
\* backwards from (9, 9).
SampleShuffles == ShuffleInputs \cup {Shuffled(<<99, 99>>)}

SamplePeppers == {ZeroPepper, [i \in 1..PEPPER_LEN |-> i]}

BoardSample ==
    \E positions \in SampleShuffles : \E pepper \in SamplePeppers :
    \E r \in {sample(positions, pepper)} :
       BoardStep("sample", [positions |-> positions, pepper |-> pepper], r,
                 IF r.ok THEN r.val ELSE board)

NextSample == BoardSample \/ BoardCheck \/ BoardApplyShot

SpecSample == InitBoard /\ [][NextSample]_vars

(***************************************************************************)
(* host/src/game_master.rs: run_game_master_interactive                    *)
(***************************************************************************)
\* opponent.ships.iter().all(|s| s.is_sunk())
\* A mutant of all_sunk: one sunk ship is taken for the whole fleet.
all_sunk_any(s) == \E i \in DOMAIN s.ships : is_sunk(s.ships[i])

all_sunk(s) == \A i \in DOMAIN s.ships : is_sunk(s.ships[i])

\* What one line typed at the prompt comes to: the opponent's board, the
\* turn, whether the function has returned, and what was printed.
Round(opponent, turn, over, said) ==
    [opponent |-> opponent, turn |-> turn, over |-> over, said |-> said]

\* The match on rc.hit, rc being the last of the verified commits: the shot is
\* applied to the opponent's board in every arm.
master_on_applied(after, turn, rc) ==
    CASE rc.hit.tag = "Miss" -> Round(after, 1 - turn, FALSE, "Miss (verified).")
      [] rc.hit.tag = "Hit" ->
           Round(after, turn, all_sunk(after), "Hit (verified)! You get another shot.")
      [] rc.hit.tag = "Sunk" ->
           IF all_sunk(after) THEN Round(after, turn, TRUE, "Sunk (verified). Turn passes.")
           ELSE Round(after, 1 - turn, FALSE, "Sunk (verified). Turn passes.")

master_on_verified(opponent, turn, pos, verified) ==
    IF ~verified.ok THEN Round(opponent, turn, FALSE, "Rejecting shot.")
    ELSE master_on_applied(apply_shot(opponent, pos).state, turn, Last(verified.val))

master_on_proof(opponent, turn, pos, proof) ==
    IF ~proof.ok THEN Round(opponent, turn, FALSE, "Rejecting shot.")
    ELSE master_on_verified(opponent, turn, pos,
                            verify_remote_round_proof(proof.val, opponent, pos))

master_shot(opponent, turn, pos, prover_up) ==
    master_on_proof(opponent, turn, pos,
                    produce_and_verify_proof(GuestInput(opponent, <<pos>>), prover_up))

(***************************************************************************)
(* Specification SpecMaster: two players at the game master's prompt       *)
(***************************************************************************)
\* The cells typed: the first two of the columns fleet's Destroyer, the first
\* of either Carrier, open water on both boards, and a column of 10.
MasterShots ==
    {Pos(8, 0), Pos(8, 1), Pos(0, 0), Pos(9, 9), Pos(0, 1), Pos(BOARD_SIZE, 0)}

MasterOpponent == IF gm.turn = 0 THEN gm.p2 ELSE gm.p1

MasterFrame == UNCHANGED <<sessionVars, advVars, boardVars, test, receipts>>

\* A line that parses as x y.
MasterShot ==
    /\ ~gm.over /\ gm.n < MaxInputs
    /\ \E pos \in MasterShots : \E prover_up \in BOOLEAN :
       \E r \in {master_shot(MasterOpponent, gm.turn, pos, prover_up)} :
          gm' = [p1 |-> IF gm.turn = 0 THEN gm.p1 ELSE r.opponent,
                 p2 |-> IF gm.turn = 0 THEN r.opponent ELSE gm.p2,
                 turn |-> r.turn, over |-> r.over, n |-> gm.n + 1,
                 last |-> [kind |-> "shot", pos |-> Some(pos), said |-> r.said]]
    /\ MasterFrame

\* "show", or a line that does not parse: the prompt is repeated.
MasterOtherInput ==
    /\ ~gm.over /\ gm.n < MaxInputs
    /\ gm' = [gm EXCEPT !.n = @ + 1,
                        !.last = [kind |-> "other", pos |-> None,
                                  said |-> "Please enter two integers: x y"]]
    /\ MasterFrame

InitMaster ==
    /\ InitSession /\ InitAdv /\ InitBoardIdle
    /\ gm = [p1 |-> RowsBoard, p2 |-> ColsBoard, turn |-> 0, over |-> FALSE, n |-> 0,
             last |-> [kind |-> "none", pos |-> None, said |-> ""]]
    /\ test = [name |-> "none"]
    /\ receipts = <<>>

NextMaster == MasterShot \/ MasterOtherInput

SpecMaster == InitMaster /\ [][NextMaster]_vars

(***************************************************************************)
(* host/tests/full_game_suite.rs: test_randomized_full_game_simulations    *)
(***************************************************************************)
\* `while moves < 2000`.
SIM_MOVES == 2000

\* What the inner `while idx < total` loop leaves: the board shot at, the
\* scan index, the turn and the number of shots that were applied.
Scan(opponent, idx, turn, shots) ==
    [opponent |-> opponent, idx |-> idx, turn |-> turn, shots |-> shots]

\* The inner loop of the player whose turn it is: the next cell of the
\* opponent's grid that is Empty is shot at; Miss and Sunk pass the turn and
\* Hit keeps it; `if !found` passes the turn when the scan found no cell.
RECURSIVE sim_scan(_, _, _, _, _)
sim_shot(a, idx, turn, shots) ==
    IF a.res = None THEN sim_scan(a.state, idx, turn, TRUE, shots)
    ELSE IF a.res[1].tag = "Hit" THEN Scan(a.state, idx, turn, shots + 1)
    ELSE Scan(a.state, idx, 1 - turn, shots + 1)

sim_scan(opponent, idx, turn, found, shots) ==
    IF idx >= BOARD_SIZE * BOARD_SIZE
    THEN Scan(opponent, idx, IF found THEN turn ELSE 1 - turn, shots)
    ELSE IF opponent.grid[idx \div BOARD_SIZE][idx % BOARD_SIZE] # "Empty"
    THEN sim_scan(opponent, idx + 1, turn, found, shots)
    ELSE sim_shot(apply_shot(opponent, Pos(idx % BOARD_SIZE, idx \div BOARD_SIZE)),
                  idx + 1, turn, shots)

\* One pass of the outer loop; `over` is the break on a fleet all sunk.
sim_after(t, sc) ==
    [name |-> "sim",
     p1 |-> IF t.turn = 0 THEN t.p1 ELSE sc.opponent,
     p2 |-> IF t.turn = 0 THEN sc.opponent ELSE t.p2,
     turn |-> sc.turn,
     p1_idx |-> IF t.turn = 0 THEN sc.idx ELSE t.p1_idx,
     p2_idx |-> IF t.turn = 0 THEN t.p2_idx ELSE sc.idx,
     moves |-> t.moves + 1, shots |-> sc.shots,
     over |-> all_sunk(sc.opponent)]

sim_inner(t) ==
    IF t.turn = 0 THEN sim_scan(t.p2, t.p1_idx, 0, FALSE, t.shots)
    ELSE sim_scan(t.p1, t.p2_idx, 1, FALSE, t.shots)

(***************************************************************************)
(* Specification SpecSim: two scanning players play the simulated game to  *)
(* its end, from every pair of boards below                                *)
(***************************************************************************)
\* The boards played: the two fleets above and those place_ships_randomly
\* makes of the shuffles.
SimBoards ==
    {RowsBoard, ColsBoard}
      \cup {place_ships_randomly(GameState_new(ZeroPepper), sh).state : sh \in
               {x \in ShuffleInputs : place_ships_randomly(GameState_new(ZeroPepper), x).ok}}

SimMove ==
    /\ test.name = "sim" /\ ~test.over /\ test.moves < SIM_MOVES
    /\ \E sc \in {sim_inner(test)} : test' = sim_after(test, sc)
    /\ UNCHANGED <<sessionVars, advVars, boardVars, gm, receipts>>

InitSim ==
    /\ InitSession /\ InitAdv /\ InitBoardIdle
    /\ gm = [turn |-> 0] /\ receipts = <<>>
    /\ \E b1 \in SimBoards : \E b2 \in SimBoards :
          test = [name |-> "sim", p1 |-> b1, p2 |-> b2, turn |-> 0,
                  p1_idx |-> 0, p2_idx |-> 0, moves |-> 0, shots |-> 0, over |-> FALSE]

NextSim == SimMove

\* The test's loop runs on: a pass that can be made is made.
SpecSim == InitSim /\ [][NextSim]_vars /\ WF_vars(NextSim)

(***************************************************************************)
(* host/tests/full_game_suite.rs: test_commit_consistency_and_mutation     *)
(***************************************************************************)
\* Specification SpecClones: a state and its clone are shot at and written to.
\* `same` records that the clone was never written to and got every shot the
\* original got; r1 and r2 are what the last apply_shot returned.
CloneStates ==
    {place_ship(GameState_new(ZeroPepper), "Destroyer", Pos(2, 2), "Horizontal").state,
     RowsBoard}

CloneShots == {Pos(2, 2), Pos(3, 2), Pos(0, 0), Pos(BOARD_SIZE, 0)}

\* The writes to the clone's public fields: a pepper byte, a grid cell, a
\* ship's position and a ship's hits.
CloneWrites(s) ==
    {[s EXCEPT !.pepper[1] = 1],
     [s EXCEPT !.grid[0][0] = "Miss"],
     [s EXCEPT !.grid[9][9] = "Hit"],
     [s EXCEPT !.ships[1].position = Pos(2, 3)],
     [s EXCEPT !.ships[1].hits = BitOr(@, 0)]}

CloneFrame == UNCHANGED <<sessionVars, advVars, boardVars, gm, receipts>>

CloneUp == test.name = "clones" /\ test.n < MaxCalls

\* The same shot is applied to both.
CloneShootBoth ==
    /\ CloneUp
    /\ \E pos \in CloneShots :
       \E a1 \in {apply_shot(test.s1, pos)} : \E a2 \in {apply_shot(test.s2, pos)} :
          test' = [test EXCEPT !.s1 = a1.state, !.r1 = a1.res,
                               !.s2 = a2.state, !.r2 = a2.res, !.n = @ + 1]
    /\ CloneFrame

\* `let _ = s1.apply_shot(...)`: the shot is applied to the original only.
CloneShootOne ==
    /\ CloneUp
    /\ \E pos \in CloneShots : \E a1 \in {apply_shot(test.s1, pos)} :
          test' = [test EXCEPT !.s1 = a1.state, !.r1 = a1.res,
                               !.same = FALSE, !.n = @ + 1]
    /\ CloneFrame

\* `s2.pepper[0] = 1` and the like.
CloneWrite ==
    /\ CloneUp
    /\ \E w \in CloneWrites(test.s2) :
          test' = [test EXCEPT !.s2 = w, !.same = FALSE, !.n = @ + 1]
    /\ CloneFrame

InitClones ==
    /\ InitSession /\ InitAdv /\ InitBoardIdle
    /\ gm = [turn |-> 0] /\ receipts = <<>>
    /\ \E s \in CloneStates :
          test = [name |-> "clones", s1 |-> s, s2 |-> s, r1 |-> None, r2 |-> None,
                  same |-> TRUE, n |-> 0]

NextClones == CloneShootBoth \/ CloneShootOne \/ CloneWrite

SpecClones == InitClones /\ [][NextClones]_vars

(***************************************************************************)
(* Claims about play_game's turn rule and end of game (Spec)               *)
(***************************************************************************)
\* The peer's last step took a ShotResult as the shooter.
TookShotResult(p) == ev[p].op = "shot_result"

\* The peer's last step answered a TakeShot with a ShotResult.
AnsweredTakeShot(p) ==
    /\ ev[p].op = "defender" /\ ev[p].status = "ok"
    /\ ev[p].sent # <<>> /\ ev[p].sent[1].payload.tag = "ShotResult"

\* C2: after the shooter takes a ShotResult its turn is remote when the hit of
\* the proof's last RoundCommit is Miss, local when it is Hit, remote when it
\* is Sunk(_).
C2_ShooterTurnRule ==
    \A p \in Peers : TookShotResult(p) =>
        /\ ev[p].rc[1].hit.tag = "Miss" => ~local_turn[p]
        /\ ev[p].rc[1].hit.tag = "Hit" => local_turn[p]
        /\ ev[p].rc[1].hit.tag = "Sunk" => ~local_turn[p]

C2_Witness_SunkPassesTurn ==
    \E p \in Peers : TookShotResult(p) /\ ev[p].rc[1].hit.tag = "Sunk" /\ ~local_turn[p]

\* C3: after the defender answers a TakeShot with a ShotResult its turn is
\* local when the proven hit is Miss, remote when it is Hit, local when it is
\* Sunk(_).
C3_DefenderTurnRule ==
    \A p \in Peers : AnsweredTakeShot(p) =>
        /\ ev[p].sent[1].payload.hit_type = ev[p].rc[1].hit
        /\ ev[p].rc[1].hit.tag = "Miss" => local_turn[p]
        /\ ev[p].rc[1].hit.tag = "Hit" => ~local_turn[p]
        /\ ev[p].rc[1].hit.tag = "Sunk" => local_turn[p]

C3_Witness_SunkGivesTurn ==
    \E p \in Peers : AnsweredTakeShot(p) /\ ev[p].rc[1].hit.tag = "Sunk" /\ local_turn[p]

\* C4: once the shooter has seen a Sunk for each of the five ShipTypes it
\* sends GameOver and leaves the loop (Finished), and sends no TakeShot after
\* that: past the step that took the fifth Sunk, the peer is Finished.
C4_GameOverAfterFiveSunk ==
    \A p \in Peers : sunk_seen[p] = ShipTypeSet =>
        \/ pc[p] = "finished"
        \/ TookShotResult(p) /\ ev[p].rc[1].hit.tag = "Sunk"

(***************************************************************************)
(* Claims about sequence numbers and the handshake (Spec, FairSpec)        *)
(***************************************************************************)
\* The peer's last step read a line from its stream.
Received(p) == ev[p].line # None

\* The envelope receive_enveloped returned to the peer in its last step.
Accepted(p) == ev[p].line[1].json

\* C6: the envelopes a peer sends carry seq 0, 1, 2, ... in send order and
\* the envelopes it accepts carry seq 0, 1, 2, ... in acceptance order:
\* the k-th sent (accepted) has seq k - 1, for BoardReady and Error too.
C6_SeqNumbersCount ==
    \A p \in Peers :
        /\ \A i \in DOMAIN ev[p].sent :
              ev[p].sent[i].seq = n_sent[p] - Len(ev[p].sent) + i - 1
        /\ (Received(p) /\ ev[p].status = "ok") => Accepted(p).seq = n_acc[p] - 1
        /\ net[p].next_seq = n_sent[p]
        /\ net[p].expected_seq = n_acc[p]

\* An Error reply was accepted under seq 1, after the BoardReady at seq 0.
C6_Witness_ErrorTakesSeq ==
    \E p \in Peers :
        /\ Received(p) /\ ev[p].status = "ok"
        /\ Accepted(p).payload.tag = "Error" /\ Accepted(p).seq = 1
        /\ n_acc[p] = 2

\* The peer's handshake has returned Ok.
HandshakeOk(p) == coord[p].opponent_name # None

\* The order of the handshake and what it leaves in both peers.
HandshakeAgrees ==
    /\ n_acc["host"] >= 1 => n_sent["host"] >= 1
    /\ n_sent["client"] >= 1 => n_acc["client"] >= 1
    /\ \A p \in Peers : pc[p] \in {"handshake", "hs_recv"} => ~HandshakeOk(p)
    /\ ev["host"].op = "hs_send" =>
          /\ ev["host"].sent[1].seq = 0 /\ ev["host"].sent[1].payload.tag = "BoardReady"
          /\ n_acc["host"] = 0
    /\ ev["client"].op = "hs_client" =>
          /\ ev["client"].status = "ok" /\ Accepted("client").seq = 0
          /\ ev["client"].sent[1].seq = 0
          /\ ev["client"].sent[1].payload.tag = "BoardReady"
    /\ ev["host"].op = "hs_recv" => ev["host"].status = "ok" /\ Accepted("host").seq = 0
    /\ \A p \in Peers : ev[p].op \in {"hs_recv", "hs_client"} =>
          /\ pc[p] = "loop"
          /\ coord[p].opponent_commit = Some(coord[Other(p)].local_commit)
          /\ coord[p].opponent_name = Some(coord[Other(p)].player_name)
    /\ (HandshakeOk("host") /\ HandshakeOk("client")) =>
          /\ net["host"].match_id # None
          /\ net["host"].match_id = net["client"].match_id

\* C9: the handshake completes without deadlock: the host sends BoardReady at
\* seq 0 before it receives, the client receives before it sends its own at
\* seq 0, both end with the same match_id, and each peer's opponent_commit and
\* opponent_name are the commitment and the name the other peer sent.
C9_HandshakeCompletes ==
    /\ []HandshakeAgrees
    /\ <>(HandshakeOk("host") /\ HandshakeOk("client"))

C9_Witness_BothThrough ==
    /\ ev["host"].op = "hs_recv" /\ pc["host"] = "loop" /\ pc["client"] = "loop"
    /\ net["host"].match_id = net["client"].match_id
    /\ coord["host"].opponent_commit = Some(coord["client"].local_commit)

\* In this step peer p, its turn remote, reads a TakeShot and sends no
\* ShotResult for it: proof production has failed.
TakeShotUnanswered(p) ==
    /\ pc[p] = "loop" /\ ~local_turn[p] /\ Len(chan'[p]) < Len(chan[p])
    /\ ev'[p].op = "defender" /\ ev'[p].status = "ok"
    /\ Head(chan[p]).json.payload.tag = "TakeShot"
    /\ ~(ev'[p].sent # <<>> /\ ev'[p].sent[1].payload.tag = "ShotResult")

C10_ApplyShotNone ==
    op.name = "apply_shot" =>
        /\ (op.result = None) <=>
              (~in_bounds(op.args) \/ op.before.grid[op.args.y][op.args.x] # "Empty")
        /\ op.result = None => board = op.before

\* A cell of a placed ship is shot a second time.
C10_Witness_Reshot ==
    /\ op.name = "apply_shot" /\ op.result = None /\ in_bounds(op.args)
    /\ board.grid[op.args.y][op.args.x] = "Hit"
    /\ board = op.before

\* The ships of s that cover cell c, the segment of ship i that lies on c
\* (0 for the origin), and whether every other segment of ship i is hit.
Covering(s, c) == {i \in DOMAIN s.ships : c \in CoordSet(s.ships[i])}

SegmentAt(s, i, c) ==
    (CHOOSE o \in 1..ShipType_size(s.ships[i].ship_type) :
        get_coordinates(s.ships[i])[o] = c) - 1

OthersHit(s, i, c) ==
    \A o \in 0..(ShipType_size(s.ships[i].ship_type) - 1) :
       o # SegmentAt(s, i, c) => BitIsSet(s.ships[i].hits, o)

C12_GridMatchesHits ==
    /\ \A y \in Cells : \A x \in Cells :
          /\ board.grid[y][x] = "Hit" =>
                \E i \in Covering(board, Pos(x, y)) :
                   BitIsSet(board.ships[i].hits, SegmentAt(board, i, Pos(x, y)))
          /\ board.grid[y][x] = "Miss" => Covering(board, Pos(x, y)) = {}
    /\ \A i \in DOMAIN board.ships :
       \A o \in 1..ShipType_size(board.ships[i].ship_type) :
          BitIsSet(board.ships[i].hits, o - 1) =>
             /\ in_bounds(get_coordinates(board.ships[i])[o])
             /\ board.grid[get_coordinates(board.ships[i])[o].y]
                           [get_coordinates(board.ships[i])[o].x] = "Hit"

\* C13: in every state reached by place_ship, place_ships and
\* place_ships_randomly calls, successful or not, every segment of every ship
\* is on the grid, no two ships share a cell and no two have the same type.
C13_FleetWellPlaced ==
    \A i \in DOMAIN board.ships :
       /\ \A c \in CoordSet(board.ships[i]) : c.x \in Cells /\ c.y \in Cells
       /\ \A j \in DOMAIN board.ships : j # i =>
             /\ CoordSet(board.ships[i]) \cap CoordSet(board.ships[j]) = {}
             /\ board.ships[i].ship_type # board.ships[j].ship_type

\* A placement is refused on an unshot board that already holds two ships.
C13_Witness_RefusedAmongShips ==
    /\ op.name \in {"place_ship", "place_ships"} /\ op.result = FALSE
    /\ Len(board.ships) >= 2 /\ board.grid = EmptyGrid

\* The cells of all ships of s.
Occupied(s) == UNION {CoordSet(s.ships[i]) : i \in DOMAIN s.ships}

\* The four conditions of a placement of type t at origin c along dir.
Placeable(s, t, c, dir) ==
    /\ c.x \in Cells /\ c.y \in Cells
    /\ Position_step(c, dir, ShipType_size(t) - 1).x \in Cells
    /\ Position_step(c, dir, ShipType_size(t) - 1).y \in Cells
    /\ \A i \in DOMAIN s.ships : s.ships[i].ship_type # t
    /\ \A k \in 0..(ShipType_size(t) - 1) : Position_step(c, dir, k) \notin Occupied(s)

\* C15: place_ship returns true exactly when can_place_ship holds for its
\* arguments; on true one ship with hits = 0 is appended to ships and nothing
\* else changes; on false the GameState is as it was.
C15_PlaceShipEffect ==
    op.name = "place_ship" =>
        /\ op.result = can_place_ship(op.before, op.args[1], op.args[2], op.args[3])
        /\ op.result =>
              board = [op.before EXCEPT !.ships =
                          Append(@, [ship_type |-> op.args[1], position |-> op.args[2],
                                     direction |-> op.args[3], hits |-> 0])]
        /\ ~op.result => board = op.before

\* A second ship is appended behind the first.
C15_Witness_SecondShip ==
    /\ op.name = "place_ship" /\ op.result = TRUE /\ Len(board.ships) = 2
    /\ board.ships[1] = op.before.ships[1]

\* The entries of list picked by the index set J, as new ships in list order.
PickedShips(list, J) ==
    [k \in 1..Cardinality(J) |->
        LET j == CHOOSE j \in J : Cardinality({i \in J : i < j}) = k - 1
        IN  Ship_new(list[j][1], list[j][2], list[j][3])]

\* J holds exactly the entries of list that can be placed at their turn, when
\* the entries of J before them have been placed on s.
SuccessfulPlacements(s, list, J) ==
    \A j \in 1..Len(list) :
       (j \in J) <=>
          Placeable([s EXCEPT !.ships = @ \o PickedShips(list, {i \in J : i < j})],
                    list[j][1], list[j][2], list[j][3])

\* C16: place_ships returns true exactly when every placement of the list
\* succeeded in list order; afterwards ships is what it was followed by the
\* successful placements in list order, those before a failure included; and
\* when it returns true on an empty board for a list with all five ShipTypes,
\* check() holds.
C16_PlaceShipsKeepsSuccesses ==
    op.name = "place_ships" =>
        /\ \E J \in SUBSET (1..Len(op.args)) :
              /\ SuccessfulPlacements(op.before, op.args, J)
              /\ board = [op.before EXCEPT !.ships = @ \o PickedShips(op.args, J)]
              /\ op.result = (J = 1..Len(op.args))
        /\ (/\ op.result = TRUE /\ op.before.ships = <<>>
            /\ \A t \in ShipTypeSet : \E j \in 1..Len(op.args) : op.args[j][1] = t)
              => check(board)

\* A list whose second entry fails and whose third succeeds.
C16_Witness_FailureInTheMiddle ==
    /\ op.name = "place_ships" /\ op.result = FALSE
    /\ Len(op.args) = 3 /\ Len(board.ships) = Len(op.before.ships) + 2

\* C38: place_ships_randomly first discards the ships placed before, so that
\* its outcome is that of the same shuffle on a state without ships; when it
\* returns true the state holds exactly five ships with hits = 0 and check()
\* holds, and when it returns false ships is empty.
C38_RandomPlacementOutcome ==
    op.name = "place_ships_randomly" =>
        /\ op.result \in BOOLEAN
        /\ board.ships
              = place_random_from([op.before EXCEPT !.ships = <<>>], op.args, 1).state.ships
        /\ op.result =>
              /\ Len(board.ships) = NUM_SHIPS
              /\ \A i \in DOMAIN board.ships : board.ships[i].hits = 0
              /\ check(board)
        /\ ~op.result => board.ships = <<>>
        /\ board.grid = op.before.grid /\ board.pepper = op.before.pepper

C38_Witness_EarlierShipsDiscarded ==
    /\ op.name = "place_ships_randomly" /\ op.result = TRUE
    /\ \E i \in DOMAIN op.before.ships : op.before.ships[i].hits # 0
    /\ \A i \in DOMAIN op.before.ships : \A j \in DOMAIN board.ships :
          op.before.ships[i] # board.ships[j]

\* The bits set in b and not in a, and the other way round.
NewBits(a, b) == {i \in 0..7 : BitIsSet(b, i) /\ ~BitIsSet(a, i)}

\* C39: an apply_shot that succeeds changes exactly one grid cell, the one
\* shot at, from Empty to Hit or Miss, and sets at most one hits bit of at
\* most one ship; no ship's type, position or direction, neither the number
\* nor the order of the ships, nor the pepper changes.
C39_ApplyShotFrame ==
    (op.name = "apply_shot" /\ op.result # None) =>
        /\ op.before.grid[op.args.y][op.args.x] = "Empty"
        /\ board.grid[op.args.y][op.args.x] \in {"Hit", "Miss"}
        /\ \A y \in Cells : \A x \in Cells :
              (y # op.args.y \/ x # op.args.x) => board.grid[y][x] = op.before.grid[y][x]
        /\ board.pepper = op.before.pepper
        /\ Len(board.ships) = Len(op.before.ships)
        /\ \A i \in DOMAIN board.ships :
              /\ board.ships[i].ship_type = op.before.ships[i].ship_type
              /\ board.ships[i].position = op.before.ships[i].position
              /\ board.ships[i].direction = op.before.ships[i].direction
              /\ NewBits(board.ships[i].hits, op.before.ships[i].hits) = {}
              /\ Cardinality(NewBits(op.before.ships[i].hits, board.ships[i].hits)) <= 1
        /\ Cardinality({i \in DOMAIN board.ships :
                            board.ships[i].hits # op.before.ships[i].hits}) <= 1

C39_Witness_SecondSegmentHit ==
    /\ op.name = "apply_shot" /\ op.result = Some(Hit)
    /\ Len(board.ships) > 1
    /\ \E i \in DOMAIN board.ships :
          /\ op.before.ships[i].hits = 1
          /\ board.ships[i].hits = 3

\* C40: in a GameState built from GameState::new by place_ship and
\* apply_shot, every ship's hits has bits set only among its low
\* size(ship_type) bits and is_sunk() is true exactly when all of them are
\* set; and no bit that is set is cleared by place_ship or apply_shot.
C40_HitsMaskInvariant ==
    /\ [](\A i \in DOMAIN board.ships :
            /\ \A k \in 0..7 : BitIsSet(board.ships[i].hits, k)
                                  => k < ShipType_size(board.ships[i].ship_type)
            /\ is_sunk(board.ships[i])
                  <=> \A k \in 0..(ShipType_size(board.ships[i].ship_type) - 1) :
                         BitIsSet(board.ships[i].hits, k))
    /\ [][op'.name \in {"place_ship", "place_ships", "apply_shot"} =>
            \A i \in DOMAIN board.ships :
               /\ i \in DOMAIN board'.ships
               /\ NewBits(board'.ships[i].hits, board.ships[i].hits) = {}]_vars

C40_Witness_SunkBesideAfloat ==
    /\ op.name = "apply_shot" /\ op.result # None /\ op.result[1].tag = "Sunk"
    /\ \E i \in DOMAIN board.ships : is_sunk(board.ships[i]) /\ ~is_sunk(op.before.ships[i])

(***************************************************************************)
(* Claims about the guest's journal and its verification (SpecGuest)       *)
(***************************************************************************)
\* The state the guest holds after the first k shots of the list.
RECURSIVE StateAfter(_, _, _)
StateAfter(s, shots, k) ==
    IF k = 0 THEN s ELSE apply_shot(StateAfter(s, shots, k - 1), shots[k]).state

\* The words of a list of RoundCommits, one after the other.
RECURSIVE CommitWords(_)
CommitWords(cs) == IF cs = <<>> THEN <<>> ELSE env_commit(cs[1]) \o CommitWords(Tail(cs))

\* The journal of a receipt has just been decoded.
Extracted == op.name = "extract"

\* A receipt has just been put to verify_remote_round_proof.
Verified == op.name = "verify"

\* C21: for a well-formed initial state and n shots, the journal is the
\* digest of the initial state followed by exactly n RoundCommits in shot
\* order; commit i carries shot i, the first old_state is the initial digest,
\* each later old_state is the previous new_state; extract_round_commits
\* returns exactly these n commits.
C21_JournalHoldsRounds ==
    (Extracted /\ check(op.args.input.initial)) =>
        /\ op.result.ok
        /\ Len(op.result.val) = Len(op.args.input.shots)
        /\ op.args.receipt.journal =
              <<commit(op.args.input.initial)>> \o CommitWords(op.result.val)
        /\ \A i \in DOMAIN op.result.val :
              /\ op.result.val[i].shot = op.args.input.shots[i]
              /\ op.result.val[i].old_state =
                    IF i = 1 THEN commit(op.args.input.initial)
                    ELSE op.result.val[i - 1].new_state

\* Three shots, the second of which sinks a ship, are decoded.
C21_Witness_ThreeRounds ==
    /\ Extracted /\ op.result.ok /\ Len(op.result.val) = 3
    /\ op.result.val[2].hit = Sunk("Destroyer")
    /\ op.result.val[3].hit = Miss

\* C22: in the guest a shot that is out of bounds or at a cell already shot
\* gives a RoundCommit with hit = Miss and new_state = old_state; every other
\* shot gives one whose new_state differs from old_state and whose hit is
\* apply_shot's result.
C22_RejectedShotIsMiss ==
    (Extracted /\ op.result.ok) =>
        \A i \in DOMAIN op.result.val :
           \E st \in {StateAfter(op.args.input.initial, op.args.input.shots, i - 1)} :
           \E shot \in {op.args.input.shots[i]} :
              IF ~in_bounds(shot) \/ st.grid[shot.y][shot.x] # "Empty"
              THEN /\ op.result.val[i].hit = Miss
                   /\ op.result.val[i].new_state = op.result.val[i].old_state
              ELSE /\ op.result.val[i].new_state # op.result.val[i].old_state
                   /\ Some(op.result.val[i].hit) = apply_shot(st, shot).res

\* A cell is shot twice in one list: a Hit, then a Miss that changes nothing.
C22_Witness_RepeatedShot ==
    /\ Extracted /\ op.result.ok /\ Len(op.result.val) = 2
    /\ op.args.input.shots[1] = op.args.input.shots[2]
    /\ op.result.val[1].hit = Hit
    /\ op.result.val[2].hit = Miss
    /\ op.result.val[2].new_state = op.result.val[2].old_state

\* C24: verify_remote_round_proof(receipt, server_state, shot) succeeds only
\* if the journal has at least one RoundCommit and the last one, rc, has
\* rc.shot = shot and rc.old_state = server_state.commit(); also when the
\* journal has more than one RoundCommit.
C24_VerifyBindsLastCommit ==
    (Verified /\ op.result.ok) =>
        \E cs \in {extract_round_commits(op.args.receipt)} :
           /\ cs.ok /\ cs.val # <<>>
           /\ cs.val[Len(cs.val)].shot = op.args.shot
           /\ cs.val[Len(cs.val)].old_state = commit(op.args.server_state)

\* C25: verify_remote_round_proof succeeds only if apply_shot on a clone of
\* server_state accepts the shot and the clone's digest after it is the last
\* commit's new_state; when the clone rejects the shot it fails with InvalidShot.
C25_VerifyReplaysShot ==
    Verified =>
        \E r \in {apply_shot(op.args.server_state, op.args.shot)} :
           /\ op.result.ok =>
                 /\ r.res # None
                 /\ \E cs \in {extract_round_commits(op.args.receipt)} :
                       cs.ok /\ cs.val # <<>>
                             /\ commit(r.state) = cs.val[Len(cs.val)].new_state
           /\ r.res = None => (~op.result.ok /\ op.result.err = "InvalidShot")

(***************************************************************************)
(* Claims about can_place_ship and check (SpecQuery)                       *)
(***************************************************************************)
\* C14: can_place_ship returns true exactly when the origin is in bounds, the
\* end cell size-1 steps along the direction is in bounds, no ship of the
\* type is placed and no candidate cell is occupied by a ship; the state is
\* the same after the call.
C14_CanPlaceShipConditions ==
    op.name = "can_place_ship" =>
        /\ op.result = Placeable(op.before, op.args[1], op.args[2], op.args[3])
        /\ board = op.before

\* A ship that fits beside the ships already there: all four conditions hold.
C14_Witness_FitsBesideOthers ==
    /\ op.name = "can_place_ship" /\ op.result = TRUE /\ board.ships # <<>>

\* C17: check() returns true exactly when the cells of every ship are in
\* bounds, every two ships are cell-disjoint and each of the five ShipTypes
\* is present exactly once; ships then has exactly five entries.
C17_CheckConditions ==
    op.name = "check" =>
        /\ op.result =
              (/\ \A i \in DOMAIN board.ships :
                     \A c \in CoordSet(board.ships[i]) : c.x \in Cells /\ c.y \in Cells
               /\ \A i \in DOMAIN board.ships : \A j \in DOMAIN board.ships :
                     i # j => CoordSet(board.ships[i]) \cap CoordSet(board.ships[j]) = {}
               /\ \A t \in ShipTypeSet :
                     Cardinality({i \in DOMAIN board.ships :
                                     board.ships[i].ship_type = t}) = 1)
        /\ op.result = TRUE => Len(board.ships) = NUM_SHIPS

\* check refuses five in-bounds ships of five types of which two overlap.
C17_Witness_OverlapRefused ==
    /\ op.name = "check" /\ op.result = FALSE /\ Len(board.ships) = NUM_SHIPS
    /\ \A t \in ShipTypeSet : \E i \in DOMAIN board.ships : board.ships[i].ship_type = t
    /\ \A i \in DOMAIN board.ships : \A c \in CoordSet(board.ships[i]) : in_bounds(c)

(***************************************************************************)
(* Claims about the envelope checks and the proof chain (SpecAdv)          *)
(***************************************************************************)
\* The line the peer's last step read parses as an envelope.
ReadEnvelope(p) == Received(p) /\ "json" \in DOMAIN ev[p].line[1]

\* receive_enveloped failed on the auth token: nothing of the connection
\* changed and the error ended the peer's session.
RejectedOnToken(p) ==
    /\ ev[p].status = "auth" /\ net[p] = ev[p].pre_net /\ pc[p] = "failed"

\* C1: a ShotResult the shooter accepts carries a RoundCommit whose old_state
\* is the opponent_commit the shooter held before, and opponent_commit is that
\* commit's new_state afterwards; a proof with another old_state (a replayed
\* earlier one) is not accepted.
C1_AcceptedProofChains ==
    \A p \in Peers : TookShotResult(p) =>
        /\ Some(ev[p].rc[1].old_state) = ev[p].pre_commit
        /\ coord[p].opponent_commit = Some(ev[p].rc[1].new_state)

\* C5: receive_enveloped returns an envelope only if its auth_token is the
\* HMAC recomputed with match_secret, its match_id is the adopted one and its
\* seq is expected_seq; expected_seq then grows by exactly one, and stays as
\* it was when a check fails.
C5_ReceiveChecks ==
    \A p \in Peers : Received(p) =>
        /\ ev[p].status = "ok" =>
              /\ ReadEnvelope(p)
              /\ Accepted(p).auth_token =
                    Some(AuthToken(ev[p].pre_net.match_secret[1], Accepted(p)))
              /\ ev[p].pre_net.match_id # None =>
                    Accepted(p).match_id = ev[p].pre_net.match_id[1]
              /\ Some(Accepted(p).match_id) = net[p].match_id
              /\ Accepted(p).seq = ev[p].pre_net.expected_seq
              /\ net[p].expected_seq = ev[p].pre_net.expected_seq + 1
        /\ ev[p].status # "ok" =>
              /\ net[p].expected_seq = ev[p].pre_net.expected_seq
              /\ pc[p] = "failed"

\* A correctly authenticated line of the match arrives a second time and is
\* refused for its seq.
C5_Witness_ReplayRefused ==
    \E p \in Peers :
        /\ ReadEnvelope(p) /\ ev[p].status = "seq"
        /\ Accepted(p) \in sent_by[Other(p)]
        /\ \E i \in DOMAIN acc_log[p] : acc_log[p][i] = Accepted(p)
        /\ net[p].expected_seq = ev[p].pre_net.expected_seq

\* C7: with an adversary that re-delivers or reflects lines sent earlier in
\* the session, every envelope a peer accepts was sent by the other peer in
\* the same match, and none is accepted more than once.
C7_AcceptedOnceFromPeer ==
    /\ \A p \in Peers : \A i \in DOMAIN acc_log[p] :
          /\ acc_log[p][i] \in sent_by[Other(p)]
          /\ Some(acc_log[p][i].match_id) = net[p].match_id
          /\ \A j \in DOMAIN acc_log[p] : j # i => acc_log[p][j] # acc_log[p][i]
    /\ \A i \in DOMAIN acc_log["host"] : \A j \in DOMAIN acc_log["client"] :
          acc_log["host"][i] # acc_log["client"][j]

\* C8: with a match_secret set, an envelope whose auth_token is missing or is
\* not the HMAC-SHA256 of the envelope with auth_token cleared is rejected;
\* so is one that carries the token of a sent envelope over another match_id,
\* seq or payload.
C8_BadTokenRejected ==
    \A p \in Peers : (ReadEnvelope(p) /\ ev[p].pre_net.match_secret # None) =>
        /\ Accepted(p).auth_token = None => RejectedOnToken(p)
        /\ (Accepted(p).auth_token # None /\ Accepted(p).auth_token[1] #
              AuthToken(ev[p].pre_net.match_secret[1], Accepted(p))) => RejectedOnToken(p)
        /\ (\E o \in sent_by["host"] \cup sent_by["client"] :
              /\ o.auth_token = Accepted(p).auth_token
              /\ \/ o.match_id # Accepted(p).match_id
                 \/ o.seq # Accepted(p).seq
                 \/ o.payload # Accepted(p).payload) => RejectedOnToken(p)

\* An envelope with the payload changed under the token of a sent envelope
\* is read and rejected.
C8_Witness_AlteredPayload ==
    \E p \in Peers :
        /\ ReadEnvelope(p) /\ RejectedOnToken(p)
        /\ \E o \in sent_by[Other(p)] :
              /\ o.auth_token = Accepted(p).auth_token
              /\ o.match_id = Accepted(p).match_id /\ o.seq = Accepted(p).seq
              /\ o.payload # Accepted(p).payload

(***************************************************************************)
(* Claims about a ShotResult that arrives out of place (SpecRogue)         *)
(***************************************************************************)
\* p's last step read, while its turn was the opponent's, an envelope that
\* passed receive_enveloped and carries a ShotResult.
ReadShotResultWhileRemote(p) ==
    /\ ev[p].op = "defender" /\ ev[p].status = "ok"
    /\ ev[p].line[1].json.payload.tag = "ShotResult"

\* C19: a peer whose turn is the opponent's and that reads a ShotResult
\* treats it as a protocol violation: its session ends with an error, and
\* neither its turn nor its opponent_commit changes.
C19_ShotResultWhileRemoteIsFatal ==
    \A p \in Peers : ReadShotResultWhileRemote(p) =>
        /\ pc[p] = "failed"
        /\ ~local_turn[p]
        /\ coord[p].opponent_commit = ev[p].pre_commit

\* p, waiting for the answer to its TakeShot, takes an accepted envelope off
\* its stream in this step.
ShooterReads(p) ==
    /\ pc[p] = "await" /\ chan[p] # <<>> /\ Len(chan'[p]) < Len(chan[p])
    /\ ev'[p].status = "ok"

\* C20: the shooter takes the envelope that follows its TakeShot as the
\* result only if it is a ShotResult whose position is the one it sent; an
\* envelope with another position or another payload leaves opponent_commit,
\* opponent_view and the turn as they were.
C20_ShooterMatchesPosition ==
    [][\A p \in Peers :
          (/\ ShooterReads(p)
           /\ ~(/\ Head(chan[p]).json.payload.tag = "ShotResult"
                /\ Some(Head(chan[p]).json.payload.position) = ev[p].shot))
          => /\ coord'[p].opponent_commit = coord[p].opponent_commit
             /\ coord'[p].opponent_view = coord[p].opponent_view
             /\ local_turn'[p] = local_turn[p]]_vars

(***************************************************************************)
(* Claims about peers on unvalidated fleets (SpecFleets) and about the     *)
(* shooter's own board (SpecCoordinator)                                   *)
(***************************************************************************)
\* p's last step read, while its turn was the opponent's, an accepted TakeShot.
ServedTakeShot(p) ==
    /\ ev[p].op = "defender" /\ ev[p].status = "ok"
    /\ ev[p].line[1].json.payload.tag = "TakeShot"

\* C23: the guest produces no journal and no proof when the initial
\* GameState fails check(); so a defender whose local_state is not
\* well-formed never answers a TakeShot with a ShotResult.
C23_NoProofOfBadFleet ==
    \A p \in Peers : ~check(coord[p].local_state) =>
        /\ \A shots \in GuestShotLists :
              /\ ~guest_main(GuestInput(coord[p].local_state, shots)).ok
              /\ ~produce_and_verify_proof(GuestInput(coord[p].local_state, shots),
                                           TRUE).ok
        /\ ServedTakeShot(p) =>
              /\ ev[p].rc = None
              /\ \A i \in DOMAIN ev[p].sent : ev[p].sent[i].payload.tag # "ShotResult"

\* A defender on a fleet that fails check() is asked for a shot and answers
\* with an Error.
C23_Witness_BadFleetRefuses ==
    \E p \in Peers :
        /\ ~check(coord[p].local_state) /\ ServedTakeShot(p)
        /\ Len(ev[p].sent) = 1 /\ ev[p].sent[1].payload.tag = "Error"
        /\ pc[p] = "loop"

\* C30: taking a ShotResult as the shooter in play_game leaves the shooter's
\* own local_state (ships, hits and grid) as it was; local_state changes only
\* when the peer serves a TakeShot as the defender.
C30_ShooterKeepsLocalState ==
    [][\A p \in Peers :
          /\ pc[p] = "await" => coord'[p].local_state = coord[p].local_state
          /\ coord'[p].local_state # coord[p].local_state =>
                /\ pc[p] = "loop" /\ ~local_turn[p]
                /\ ev'[p].op = "defender" /\ ev'[p].status = "ok"
                /\ ev'[p].line[1].json.payload.tag = "TakeShot"]_vars

(***************************************************************************)
(* Claims about the sampler (SpecSample)                                   *)
(***************************************************************************)
\* C27: every GameState the Standard sampler produces, for every outcome of
\* the random source, satisfies check(): five ships, one of each type, all
\* in bounds and pairwise disjoint.
C27_SampledBoardsPassCheck ==
    op.name = "sample" =>
        /\ op.result.ok
        /\ check(op.result.val)
        /\ Len(op.result.val.ships) = NUM_SHIPS
        /\ \A i \in DOMAIN op.result.val.ships :
              /\ \A c \in CoordSet(op.result.val.ships[i]) : in_bounds(c)
              /\ \A j \in DOMAIN op.result.val.ships : j # i =>
                    /\ op.result.val.ships[j].ship_type # op.result.val.ships[i].ship_type
                    /\ CoordSet(op.result.val.ships[j])
                          \cap CoordSet(op.result.val.ships[i]) = {}

(***************************************************************************)
(* Claims about the simulated game (SpecSim)                               *)
(***************************************************************************)
\* Every ship of the board is sunk.
FleetSunk(s) == \A i \in DOMAIN s.ships : is_sunk(s.ships[i])

\* C28: from any two well-formed boards the scanning players, under the rule
\* Miss and Sunk pass the turn and Hit keeps it, come to the end of the game:
\* never more than 200 shots are made, and when play has stopped exactly one
\* player's fleet is fully sunk.
C28_SimulationEnds ==
    /\ [](check(test.p1) /\ check(test.p2) /\ test.shots <= 2 * BOARD_SIZE * BOARD_SIZE)
    /\ [](test.over => (FleetSunk(test.p1) # FleetSunk(test.p2)))
    /\ <>(test.over)

C28_Witness_SecondPlayerWins ==
    /\ test.name = "sim" /\ test.over
    /\ FleetSunk(test.p1) /\ ~FleetSunk(test.p2)
    /\ test.shots > 100 /\ test.moves = test.shots

TypedRejectedShot ==
    /\ gm'.n = gm.n + 1 /\ gm'.last.kind = "shot"
    /\ \E pos \in {gm'.last.pos[1]} :
          ~in_bounds(pos) \/ MasterOpponent.grid[pos.y][pos.x] # "Empty"

\* C26: in run_game_master_interactive a shot that is out of bounds or at a
\* cell already shot does not pass the turn and does not change the
\* opponent's board: the same player is prompted again.
C26_InvalidShotReprompts ==
    [][TypedRejectedShot =>
          /\ gm'.turn = gm.turn
          /\ gm'.p1 = gm.p1 /\ gm'.p2 = gm.p2
          /\ ~gm'.over]_vars

(***************************************************************************)
(* Claims about the coordinator's fields during play_game (Spec)           *)
(***************************************************************************)
\* C31: throughout play_game the shooter's opponent_view has no ships, each
\* cell of its grid is Empty or holds what the same cell of the defender's
\* local_state.grid holds, and a cell recorded as Hit never becomes Miss.
C31_ViewMirrorsDefender ==
    /\ [](\A p \in Peers :
            /\ coord[p].opponent_view.ships = <<>>
            /\ \A y \in Cells : \A x \in Cells :
                  coord[p].opponent_view.grid[y][x]
                      \in {"Empty", coord[Other(p)].local_state.grid[y][x]})
    /\ [][\A p \in Peers : \A y \in Cells : \A x \in Cells :
            coord[p].opponent_view.grid[y][x] = "Hit"
                => coord'[p].opponent_view.grid[y][x] = "Hit"]_vars

\* In this step the peer, as the shooter, accepted a ShotResult.
AcceptsShotResult(p) == n_acc'[p] = n_acc[p] + 1 /\ ev'[p].op = "shot_result"

\* C32: for every ShotResult the shooter accepts in play_game exactly one
\* record, of the receipt in base64 and the commit, is appended to the audit
\* log, and records are only ever appended.
C32_AcceptedResultIsLogged ==
    [][/\ Len(receipts') >= Len(receipts)
       /\ SubSeq(receipts', 1, Len(receipts)) = receipts
       /\ \A p \in Peers : AcceptsShotResult(p) =>
             /\ Len(receipts') = Len(receipts) + 1
             /\ receipts'[Len(receipts')].commit = to_json(ev'[p].rc[1])]_vars

\* Both peers are in play_game's loop and no envelope is in flight.
Quiet ==
    /\ \A p \in Peers : pc[p] \in {"loop", "await"}
    /\ \A p \in Peers : chan[p] = <<>>

\* The peer is blocked in receive_enveloped.
Waiting(p) == pc[p] = "await" \/ (pc[p] = "loop" /\ ~local_turn[p])

\* C33: host and client both in play_game over a reliable in-order channel:
\* whenever no envelope is in flight exactly one of them has the turn; they
\* are not both shooters and not both waiting to receive.
C33_OneTurnHolder ==
    Quiet =>
        /\ local_turn["host"] # local_turn["client"]
        /\ ~(\A p \in Peers : Waiting(p))

C33_Witness_TurnWentToClient ==
    /\ Quiet /\ local_turn["client"] /\ ~local_turn["host"]
    /\ ev["host"].op = "shot_result" /\ ev["client"].op = "defender"
    /\ n_acc["host"] > 2

\* C34: two honest peers whose coordinators were created with local_commit =
\* local_state.commit(): whenever no envelope is in flight after the
\* handshake, each peer's opponent_commit is the commit of the other peer's
\* local_state as it is now, whatever was shot at, cells off the board and
\* cells shot before included.
C34_OpponentCommitIsCurrent ==
    (/\ \A p \in Peers : pc[p] \notin {"handshake", "hs_recv"}
     /\ \A p \in Peers : chan[p] = <<>>)
        => \A p \in Peers :
              coord[p].opponent_commit = Some(commit(coord[Other(p)].local_state))

C34_Witness_BothBoardsShot ==
    /\ Quiet
    /\ \A p \in Peers : coord[p].local_state # InitialBoard(p)
    /\ \E p \in Peers : /\ ev[p].op = "shot_result"
                         /\ ev[p].rc[1].old_state = ev[p].rc[1].new_state
                         /\ in_bounds(ev[p].rc[1].shot)

\* C35: at every point of play_game the coordinator's local_commit field is
\* the commit of its local_state, also after shots of the opponent were
\* applied to local_state.
C35_LocalCommitIsCurrent ==
    \A p \in Peers : coord[p].local_commit = commit(coord[p].local_state)

\* The peer's last step, as the shooter, read a ShotResult and took the last
\* RoundCommit of its proof.
HandlesShotResult(p) ==
    /\ ev[p].op \in {"shot_result", "shooter_other"}
    /\ ev[p].status = "ok" /\ ev[p].rc # None

\* C36: whatever pair of coordinates the local player entered, 10 or more
\* and the fallback 999 included, handling the ShotResult that comes back
\* does not index opponent_view.grid outside rows and columns 0..9.
C36_ViewIndexInRange ==
    \A p \in Peers : HandlesShotResult(p) =>
        /\ pc[p] # "panicked"
        /\ ev[p].line[1].json.payload.position.x \in Cells
        /\ ev[p].line[1].json.payload.position.y \in Cells

(***************************************************************************)
(* Claims about the end of play_game (SpecLive)                            *)
(***************************************************************************)
\* C37: two honest peers and a prover that always succeeds: once every ship
\* of one peer has been sunk, both peers' loops come to their end
\* (Finished), a GameOver having been sent and received.
C37_SunkFleetEndsBothLoops ==
    (\E p \in Peers : FleetSunk(coord[p].local_state))
        ~> (\A p \in Peers : pc[p] = "finished")

====
